---- MODULE Spec2Model ----
(***************************************************************************)
(* Model of the process-wide state of the design-automation agent:         *)
(*   - the workflow progress tracker (app/tools/flow_generator.py),        *)
(*   - the design token store (app/tools/design_tokens.py).                *)
(* Each tool call is one action; `call` holds the arguments of the last    *)
(* call, `ret` the dict it returned and `requests` the HTTP requests it    *)
(* sent to the sandbox component store.                                    *)
(***************************************************************************)
EXTENDS Integers, Sequences, FiniteSets, TLC

VARIABLES
    clock,                  \* int(time.time()) / time.strftime: the wall clock, in seconds
    calls,                  \* number of tool calls made so far
    active_workflow_plans,  \* _active_workflow_plans: workflow id -> plan
    sandbox,                \* the sandbox component store: sequence of records
    design_tokens_store,    \* _design_tokens_store: category -> (key -> value)
    call,                   \* name and arguments of the last tool call
    ret,                    \* the dict returned by the last tool call
    requests,               \* HTTP methods the last tool call sent to the sandbox
    tool_state,             \* _tool_state: images, business_dna, component_templates
    runs,                   \* the analyze_business_dna invocations: position and locals
    raised                  \* the exception the last tool call let out, or None

vars == <<clock, calls, active_workflow_plans, sandbox, design_tokens_store,
          call, ret, requests, tool_state, runs, raised>>

----------------------------------------------------------------------------
(* Bounds *)

MaxClock == 1       \* the clock takes the values 0 .. MaxClock
MaxCalls == 3       \* tool calls per behaviour
MaxSteps == 2       \* step names passed to generate_workflow_plan
MaxTotal == 40      \* steps of the plans whose progress is computed
MaxScreens == 2     \* records the screen tools create in the sandbox

----------------------------------------------------------------------------
(* Values *)

None == "None"              \* Python's None
Truthy(x) == x /= None /\ x /= ""

\* the step names a caller passes: the first n of these, in this order
AllStepNames == <<"Login", "Dashboard", "Settings", "Profile">>
StepNameLists == {SubSeq(AllStepNames, 1, n) : n \in 0..MaxSteps}
Statuses == {"pending", "in_progress", "complete", "blocked"}
LinkedIds == {None, "", "abc123"}
LinkedNames == {None, "LoginScreen"}
\* outcomes of the sandbox's GET (lookup by name) and of its PUT or POST
Outcomes == {<<"ok", "ok">>, <<"ok", "fail">>, <<"error", "ok">>}
TaskDescription == "User management screens"

\* f"workflow_{int(time.time())}"
WorkflowId(t) == "workflow_" \o ToString(t)
\* f"step-{i+1}"
StepId(i) == "step-" \o ToString(i)
\* ids the sandbox gives to the records it creates
ComponentId(n) == "comp-" \o ToString(n)

WorkflowIds == {WorkflowId(t) : t \in 0..(MaxClock + 1)}
StepIds == {StepId(i) : i \in 1..(MaxSteps + 1)}

NoCall == [op |-> "none"]
NoRet == [success |-> FALSE, error |-> "none"]

----------------------------------------------------------------------------
(* Helpers of the workflow tracker *)

\* sum(1 for s in steps if s["status"] == "complete")
CompletedCount(steps) ==
    Cardinality({i \in DOMAIN steps : steps[i].status = "complete"})

\* Python floats are IEEE doubles.  A positive double is held as [e, d]: its
\* value is (1 + d[1]/B + d[2]/B^2 + d[3]/B^3 + d[4]/B^4) * 2^e with
\* B = LimbBase, the 52 bits after the leading one in four limbs of 13 bits.
LimbBase == 8192

RECURSIVE Pow2(_)
Pow2(k) == IF k = 0 THEN 1 ELSE 2 * Pow2(k - 1)

\* the number of zero bits before the first one bit of r / n, for 0 < r < n
RECURSIVE LeadingZeros(_, _)
LeadingZeros(r, n) == IF 2 * r >= n THEN 0 ELSE 1 + LeadingZeros(2 * r, n)

\* the double [e, d], one unit in the last place higher if up
RoundUp(e, d, up) ==
    LET i4 == d[4] + (IF up THEN 1 ELSE 0)
        i3 == d[3] + i4 \div LimbBase
        i2 == d[2] + i3 \div LimbBase
        i1 == d[1] + i2 \div LimbBase
    IN  [e |-> e + i1 \div LimbBase,
         d |-> <<i1 % LimbBase, i2 % LimbBase, i3 % LimbBase, i4 % LimbBase>>]

\* completed / len(steps): the double nearest to c / n, ties to the even
\* mantissa, for 0 < c < n
FloatDiv(c, n) ==
    LET z == LeadingZeros(c, n)
        r1 == 2 * c * Pow2(z) - n
        r2 == (r1 * LimbBase) % n
        r3 == (r2 * LimbBase) % n
        r4 == (r3 * LimbBase) % n
        r5 == (r4 * LimbBase) % n
        d == <<(r1 * LimbBase) \div n, (r2 * LimbBase) \div n,
               (r3 * LimbBase) \div n, (r4 * LimbBase) \div n>>
    IN  RoundUp(-(z + 1), d, 2 * r5 > n \/ (2 * r5 = n /\ d[4] % 2 = 1))

\* x * 100: the double nearest to the product, ties to the even mantissa
FloatTimes100(x) ==
    LET t4 == x.d[4] * 100
        t3 == x.d[3] * 100 + t4 \div LimbBase
        t2 == x.d[2] * 100 + t3 \div LimbBase
        t1 == x.d[1] * 100 + t2 \div LimbBase
        t0 == 100 + t1 \div LimbBase
        s == IF t0 >= 128 THEN 7 ELSE 6     \* bits the product has too many
        low == Pow2(s)
        high == LimbBase \div low
        Shift(upper, lower) == (upper % low) * high + (lower % LimbBase) \div low
        d == <<Shift(t0, t1), Shift(t1, t2), Shift(t2, t3), Shift(t3, t4)>>
        dropped == t4 % low
    IN  RoundUp(x.e + s, d,
                2 * dropped > low \/ (2 * dropped = low /\ d[4] % 2 = 1))

\* round(x) of a double 0 < x < 8192: the nearest integer, halves to the even
RoundDouble(x) ==
    IF x.e < -1 THEN 0
    ELSE IF x.e = -1 THEN (IF x.d = <<0, 0, 0, 0>> THEN 0 ELSE 1)
    ELSE LET unit == Pow2(13 - x.e)
             whole == (LimbBase + x.d[1]) \div unit
             frac == (LimbBase + x.d[1]) % unit
             rest == x.d[2] /= 0 \/ x.d[3] /= 0 \/ x.d[4] /= 0
         IN  IF 2 * frac < unit THEN whole
             ELSE IF 2 * frac > unit \/ rest THEN whole + 1
             ELSE IF whole % 2 = 0 THEN whole ELSE whole + 1

\* mutant: the percentage is cut off instead of rounded
Progress_Truncated(steps) == (100 * CompletedCount(steps)) \div Len(steps)

\* round((completed / len(steps)) * 100); 0 / n = 0.0 and n / n = 1.0 are
\* exact, and so are their products with 100
Progress(steps) ==
    LET completed == CompletedCount(steps)
    IN  IF completed = 0 THEN 0
        ELSE IF completed = Len(steps) THEN 100
        ELSE RoundDouble(FloatTimes100(FloatDiv(completed, Len(steps))))

\* _generate_workflow_component_code: the title and the serialized steps
GenerateWorkflowComponentCode(title, steps) == [title |-> title, steps |-> steps]

\* _get_workflow_component_id: id of the first record named WorkflowPlan;
\* None when there is none or when the GET fails
GetWorkflowComponentId(get) ==
    LET hits == {i \in DOMAIN sandbox :
                    sandbox[i].name = "WorkflowPlan"
                    \/ sandbox[i].filename = "WorkflowPlan.tsx"}
    IN  IF get = "ok" /\ hits /= {}
        THEN sandbox[CHOOSE i \in hits : \A j \in hits : i <= j].id
        ELSE None

\* the id of the next record: the first one that no record has
NewComponentId ==
    LET free == {n \in 1..(Len(sandbox) + 1) :
                    \A i \in DOMAIN sandbox : sandbox[i].id /= ComponentId(n)}
    IN  ComponentId(CHOOSE n \in free : \A m \in free : n <= m)

\* the sandbox after a POST that creates a record
SandboxCreate(code, name) ==
    Append(sandbox, [id |-> NewComponentId, name |-> name,
                     filename |-> name \o ".tsx", code |-> code])

\* the sandbox after a PUT ?id= that replaces a record's code
SandboxPut(id, code) ==
    [i \in DOMAIN sandbox |->
        IF sandbox[i].id = id THEN [sandbox[i] EXCEPT !.code = code]
        ELSE sandbox[i]]

\* mutant: step ids numbered from 0
NewWorkflowSteps_ZeroBased(steps) ==
    [i \in 1..Len(steps) |->
        [id |-> StepId(i - 1), title |-> steps[i], status |-> "pending",
         linkedComponentId |-> None, linkedComponentName |-> None]]

\* the step objects generate_workflow_plan builds from the step names; the
\* description text of a step, which no operation reads back, is left out
NewWorkflowSteps(steps) ==
    [i \in 1..Len(steps) |->
        [id |-> StepId(i), title |-> steps[i], status |-> "pending",
         linkedComponentId |-> None, linkedComponentName |-> None]]

\* mutant: the titles instead of the ids
KnownStepIds_Titles(steps) == [i \in DOMAIN steps |-> steps[i].title]

\* [s['id'] for s in steps]
KnownStepIds(steps) == [i \in DOMAIN steps |-> steps[i].id]

\* mutant: no regression guard, the requested status is always stored
UpdateSteps_NoGuard(steps, step_id, status, linked_component_id, linked_component_name) ==
    [i \in DOMAIN steps |->
        IF steps[i].id /= step_id THEN steps[i]
        ELSE [steps[i] EXCEPT
                !.status = status,
                !.linkedComponentId =
                    IF Truthy(linked_component_id) THEN linked_component_id ELSE @,
                !.linkedComponentName =
                    IF Truthy(linked_component_name) THEN linked_component_name ELSE @]]

\* mutant: the regression guard also drops the linked component name
UpdateSteps_GuardDropsName(steps, step_id, status, linked_component_id, linked_component_name) ==
    [i \in DOMAIN steps |->
        IF steps[i].id /= step_id THEN steps[i]
        ELSE LET step == steps[i]
                 guarded == step.status = "complete" /\ status /= "complete"
             IN  [step EXCEPT
                    !.status = IF guarded THEN @ ELSE status,
                    !.linkedComponentId =
                        IF Truthy(linked_component_id) THEN linked_component_id ELSE @,
                    !.linkedComponentName =
                        IF Truthy(linked_component_name) /\ ~guarded
                        THEN linked_component_name ELSE @]]

\* the steps list after the loop of update_workflow_step (regression guard)
UpdateSteps(steps, step_id, status, linked_component_id, linked_component_name) ==
    [i \in DOMAIN steps |->
        IF steps[i].id /= step_id THEN steps[i]
        ELSE LET step == steps[i]
                 guarded == step.status = "complete" /\ status /= "complete"
             IN  [step EXCEPT
                    !.status = IF guarded THEN @ ELSE status,
                    !.linkedComponentId =
                        IF Truthy(linked_component_id) THEN linked_component_id ELSE @,
                    !.linkedComponentName =
                        IF Truthy(linked_component_name) THEN linked_component_name ELSE @]]

----------------------------------------------------------------------------
(* Tool calls of the workflow tracker *)

\* generate_workflow_plan(task_description, steps); post is the outcome of
\* the POST that saves the diagram to the sandbox
generate_workflow_plan(steps, post) ==
    LET workflow_id == WorkflowId(clock)
        workflow_steps == NewWorkflowSteps(steps)
        component_code == GenerateWorkflowComponentCode(TaskDescription, workflow_steps)
        component_id == IF post = "ok" THEN NewComponentId ELSE None
        plan == [task_description |-> TaskDescription, steps |-> workflow_steps,
                 component_id |-> component_id]
    IN  /\ calls < MaxCalls
        /\ calls' = calls + 1
        /\ sandbox' = IF post = "ok" THEN SandboxCreate(component_code, "WorkflowPlan")
                      ELSE sandbox
        /\ active_workflow_plans' =
              [w \in DOMAIN active_workflow_plans \cup {workflow_id} |->
                  IF w = workflow_id THEN plan ELSE active_workflow_plans[w]]
        /\ call' = [op |-> "generate_workflow_plan", steps |-> steps]
        /\ ret' = [success |-> TRUE, error |-> "none", workflow_id |-> workflow_id,
                   component_id |-> component_id,
                   steps |-> [i \in 1..Len(steps) |->
                                [id |-> workflow_steps[i].id, title |-> workflow_steps[i].title]],
                   step_count |-> Len(workflow_steps)]
        /\ requests' = <<"POST">>
        /\ UNCHANGED <<clock, design_tokens_store, tool_state, runs>>
        /\ raised' = None

\* update_workflow_step(workflow_id, step_id, status, linked_component_id,
\* linked_component_name); get and write are the outcomes of the sandbox's
\* GET (lookup by name) and of its PUT or POST
update_workflow_step(workflow_id, step_id, status, linked_component_id, linked_component_name, get, write) ==
    /\ calls < MaxCalls
    /\ calls' = calls + 1
    /\ call' = [op |-> "update_workflow_step", workflow_id |-> workflow_id,
                step_id |-> step_id, status |-> status,
                linked_component_id |-> linked_component_id,
                linked_component_name |-> linked_component_name]
    /\ UNCHANGED <<clock, design_tokens_store, tool_state, runs>>
    /\ raised' = None
    /\ IF workflow_id \notin DOMAIN active_workflow_plans
       THEN /\ ret' = [success |-> FALSE, error |-> "workflow_not_found",
                       available |-> DOMAIN active_workflow_plans]
            /\ requests' = <<>>
            /\ UNCHANGED <<active_workflow_plans, sandbox>>
       ELSE LET workflow == active_workflow_plans[workflow_id]
                steps == workflow.steps
                component_id == workflow.component_id
                step_found == \E i \in DOMAIN steps : steps[i].id = step_id
                new_steps == UpdateSteps(steps, step_id, status,
                                         linked_component_id, linked_component_name)
            IN  IF ~step_found
                THEN /\ ret' = [success |-> FALSE, error |-> "step_not_found",
                                available |-> KnownStepIds(steps)]
                     /\ requests' = <<>>
                     /\ UNCHANGED <<active_workflow_plans, sandbox>>
                ELSE /\ active_workflow_plans' =
                          [active_workflow_plans EXCEPT ![workflow_id].steps = new_steps]
                     /\ ret' = [success |-> TRUE, error |-> "none",
                                step_updated |-> step_id, new_status |-> status,
                                progress |-> Progress(new_steps),
                                completed_steps |-> CompletedCount(new_steps),
                                total_steps |-> Len(new_steps)]
                     /\ IF Truthy(component_id)
                        THEN LET component_code ==
                                     GenerateWorkflowComponentCode(workflow.task_description,
                                                                   new_steps)
                                 current_id == GetWorkflowComponentId(get)
                             IN  IF ~Truthy(current_id)
                                 THEN /\ requests' = <<"GET", "POST">>
                                      /\ sandbox' =
                                            IF write = "ok"
                                            THEN SandboxCreate(component_code, "WorkflowPlan")
                                            ELSE sandbox
                                 ELSE /\ requests' = <<"GET", "PUT">>
                                      /\ sandbox' =
                                            IF write = "ok"
                                            THEN SandboxPut(current_id, component_code)
                                            ELSE sandbox
                        ELSE /\ requests' = <<>>
                             /\ UNCHANGED sandbox

----------------------------------------------------------------------------
(* The design token store.  A category is a dict from token names to      *)
(* values; update_design_tokens merges one level deep and never looks     *)
(* into a value, so values are strings (a nested dict of `components` is  *)
(* one value).                                                            *)

\* the dict literal that initialises _design_tokens_store and that
\* reset_design_tokens assigns; last_updated is the only entry that differs
TokenDefaults(last_updated) ==
    [colors |->
        [primary |-> "#3b82f6", secondary |-> "#6366f1", accent |-> "#8b5cf6",
         background |-> "#0f172a", surface |-> "#1e293b", text |-> "#f8fafc",
         text_muted |-> "#94a3b8", success |-> "#22c55e", warning |-> "#f59e0b",
         error |-> "#ef4444"],
     typography |->
        [font_family |-> "Inter, system-ui, sans-serif",
         font_family_mono |-> "JetBrains Mono, monospace",
         heading_weight |-> "600", body_weight |-> "400",
         base_size |-> "16px", scale_ratio |-> "1.25"],
     spacing |->
        ("2xl" :> "48px") @@
        [unit |-> "4px", xs |-> "4px", sm |-> "8px", md |-> "16px",
         lg |-> "24px", xl |-> "32px"],
     borders |->
        [radius_sm |-> "4px", radius_md |-> "8px", radius_lg |-> "12px",
         radius_full |-> "9999px", width |-> "1px"],
     shadows |->
        [sm |-> "0 1px 2px 0 rgb(0 0 0 / 0.05)",
         md |-> "0 4px 6px -1px rgb(0 0 0 / 0.1)",
         lg |-> "0 10px 15px -3px rgb(0 0 0 / 0.1)"],
     components |->
        [button |-> "{padding: 8px 16px, border_radius: 8px, font_weight: 500}",
         card |-> "{padding: 16px, border_radius: 12px, background: #1e293b}",
         input |-> "{padding: 8px 12px, border_radius: 6px, border_color: #334155}"],
     metadata |->
        [name |-> "Default Design System",
         description |-> "Default dark theme design tokens",
         last_updated |-> last_updated]]

\* time.strftime("%Y-%m-%d %H:%M:%S")
Strftime(t) == "time-" \o ToString(t)

\* d with d[key] = value (a dict item assignment)
SetItem(d, key, value) ==
    [k \in DOMAIN d \cup {key} |-> IF k = key THEN value ELSE d[k]]

\* dict.update: the entries of updates over those of d
DictUpdate(d, updates) ==
    [k \in DOMAIN d \cup DOMAIN updates |->
        IF k \in DOMAIN updates THEN updates[k] ELSE d[k]]

\* mutant: merge=True replaces the category like merge=False
NewCategoryValue_AlwaysReplace(old, updates, merge) == updates

\* the value update_design_tokens stores for the category
NewCategoryValue(old, updates, merge) ==
    IF merge THEN DictUpdate(old, updates) ELSE updates

\* _design_tokens_store[category] = value
StoreCategory(store, category, value) == [store EXCEPT ![category] = value]

\* _design_tokens_store["metadata"]["last_updated"] = time.strftime(...)
TouchLastUpdated(store) ==
    [store EXCEPT !["metadata"] = SetItem(@, "last_updated", Strftime(clock))]

\* mutant: the timestamp is refreshed before the category is looked up
UpdatedStore_TouchesFirst(store, category, updates, merge) ==
    IF category \notin DOMAIN store
    THEN TouchLastUpdated(store)
    ELSE TouchLastUpdated(
             StoreCategory(store, category,
                           NewCategoryValue(store[category], updates, merge)))

\* the store update_design_tokens leaves: untouched when the category is not
\* a key of it (the early return), else the new category value and timestamp
UpdatedStore(store, category, updates, merge) ==
    IF category \notin DOMAIN store
    THEN store
    ELSE TouchLastUpdated(
             StoreCategory(store, category,
                           NewCategoryValue(store[category], updates, merge)))

\* update_design_tokens(category, updates, merge)
update_design_tokens(category, updates, merge) ==
    /\ calls < MaxCalls
    /\ calls' = calls + 1
    /\ call' = [op |-> "update_design_tokens", category |-> category,
                updates |-> updates, merge |-> merge]
    /\ requests' = <<>>
    /\ UNCHANGED <<clock, active_workflow_plans, sandbox, tool_state, runs>>
    /\ raised' = None
    /\ design_tokens_store' = UpdatedStore(design_tokens_store, category, updates, merge)
    /\ IF category \notin DOMAIN design_tokens_store
       THEN ret' = [success |-> FALSE, error |-> "unknown_category",
                    category |-> category,
                    available_categories |-> DOMAIN design_tokens_store]
       ELSE ret' = [success |-> TRUE, error |-> "none",
                    tokens |-> design_tokens_store'[category],
                    \* with merge=False on metadata the dict passed in is
                    \* the one stored, so it has got last_updated by now
                    changes |-> IF ~merge /\ category = "metadata"
                                THEN DOMAIN updates \cup {"last_updated"}
                                ELSE DOMAIN updates]

\* x or y
Or(x, y) == IF Truthy(x) THEN x ELSE y
\* d.get(key)
Get(d, key) == IF key \in DOMAIN d THEN d[key] ELSE None
\* d.get(key, default)
GetDefault(d, key, default) == IF key \in DOMAIN d THEN d[key] ELSE default

\* the colour tokens extract_tokens_from_analysis takes from the analysis;
\* a value is a list (a sequence) for the keys in lists, where the first
\* element is taken if there is one
ColorTokens(colors, lists) ==
    [k \in DOMAIN colors \cap {"primary", "secondary", "accent", "background", "text"} |->
        IF k \in lists /\ k \in {"secondary", "accent"}
        THEN (IF Len(colors[k]) > 0 THEN colors[k][1] ELSE "[]")
        ELSE colors[k]]

\* the typography tokens it takes
TypographyTokens(typo) ==
    LET family == IF DOMAIN typo \cap {"font_family", "fontFamily"} /= {}
                  THEN "font_family" :>
                          Or(Get(typo, "font_family"), Get(typo, "fontFamily"))
                  ELSE << >>
        weight == IF DOMAIN typo \cap {"heading_style", "headingStyle"} /= {}
                  THEN "heading_weight" :>
                          Or(Get(typo, "heading_style"), Get(typo, "headingStyle"))
                  ELSE << >>
    IN  family @@ weight

\* the spacing tokens it takes
SpacingTokens(layout) ==
    IF "spacing" \in DOMAIN layout THEN "unit" :> layout["spacing"] ELSE << >>

\* the analyses passed to extract_tokens_from_analysis: the categories given
\* as dicts, and the colour keys whose value is a list
StyleAnalyses ==
    {[dicts |-> << >>, lists |-> {}],
     [dicts |-> [colors |-> [primary |-> "#ff0000", surface |-> "#222222"]],
      lists |-> {}],
     [dicts |-> [colors |-> ("secondary" :> <<"#00ff00", "#0000ff">>) @@
                            ("accent" :> << >>)],
      lists |-> {"secondary", "accent"}],
     [dicts |-> [typography |-> [fontFamily |-> "Roboto", size |-> "14px"],
                 layout |-> [spacing |-> "8px"]],
      lists |-> {}],
     [dicts |-> [colors |-> << >>, mood |-> << >>], lists |-> {}]}

\* extract_tokens_from_analysis(style_analysis)
extract_tokens_from_analysis(style_analysis) ==
    LET given == style_analysis.dicts
        color_tokens == IF "colors" \in DOMAIN given
                        THEN ColorTokens(given["colors"], style_analysis.lists)
                        ELSE << >>
        typo_tokens == IF "typography" \in DOMAIN given
                       THEN TypographyTokens(given["typography"]) ELSE << >>
        spacing_tokens == IF "layout" \in DOMAIN given
                          THEN SpacingTokens(given["layout"]) ELSE << >>
        extracted == {c \in {"colors"} : DOMAIN color_tokens /= {}}
                     \cup {c \in {"typography"} : DOMAIN typo_tokens /= {}}
                     \cup {c \in {"spacing"} : DOMAIN spacing_tokens /= {}}
        merged == [c \in DOMAIN design_tokens_store |->
                     CASE c = "colors" -> DictUpdate(design_tokens_store[c], color_tokens)
                       [] c = "typography" -> DictUpdate(design_tokens_store[c], typo_tokens)
                       [] c = "spacing" -> DictUpdate(design_tokens_store[c], spacing_tokens)
                       [] OTHER -> design_tokens_store[c]]
    IN  /\ calls < MaxCalls
        /\ calls' = calls + 1
        /\ call' = [op |-> "extract_tokens_from_analysis",
                    style_analysis |-> style_analysis]
        /\ requests' = <<>>
        /\ UNCHANGED <<clock, active_workflow_plans, sandbox, tool_state, runs>>
        /\ raised' = None
        /\ IF DOMAIN given = {}
           THEN /\ ret' = [success |-> FALSE, error |-> "no_style_analysis"]
                /\ UNCHANGED design_tokens_store
           ELSE /\ design_tokens_store' =
                      [TouchLastUpdated(merged) EXCEPT !["metadata"] =
                          SetItem(@, "description", "Extracted from style analysis")]
                /\ ret' = [success |-> TRUE, error |-> "none",
                           extracted_tokens |-> extracted,
                           total_categories |-> Cardinality(extracted)]

\* mutant: the dict literal of reset_design_tokens lacks the shadows
ResetTokens_NoShadows(t) ==
    [c \in DOMAIN TokenDefaults(Strftime(t)) \ {"shadows"} |->
        TokenDefaults(Strftime(t))[c]]

\* mutant: the dict literal of reset_design_tokens has another accent colour
ResetTokens_OtherAccent(t) ==
    [TokenDefaults(Strftime(t)) EXCEPT !.colors.accent = "#a855f7"]

\* the dict literal reset_design_tokens assigns at time t: the defaults again
ResetTokens(t) == TokenDefaults(Strftime(t))

\* reset_design_tokens()
reset_design_tokens ==
    /\ calls < MaxCalls
    /\ calls' = calls + 1
    /\ call' = [op |-> "reset_design_tokens"]
    /\ design_tokens_store' = ResetTokens(clock)
    /\ ret' = [success |-> TRUE, error |-> "none"]
    /\ requests' = <<>>
    /\ UNCHANGED <<clock, active_workflow_plans, sandbox, tool_state, runs>>
    /\ raised' = None

\* get_design_tokens(category): one category, all of them when category is
\* None or empty, a failure when the store has no such category
get_design_tokens(category) ==
    /\ calls < MaxCalls
    /\ calls' = calls + 1
    /\ call' = [op |-> "get_design_tokens", category |-> category]
    /\ ret' = IF ~Truthy(category)
              THEN [success |-> TRUE, error |-> "none", tokens |-> design_tokens_store]
              ELSE IF category \in DOMAIN design_tokens_store
              THEN [success |-> TRUE, error |-> "none", category |-> category,
                    tokens |-> [c \in {category} |-> design_tokens_store[c]]]
              ELSE [success |-> FALSE, error |-> "unknown_category",
                    category |-> category,
                    available_categories |-> DOMAIN design_tokens_store]
    /\ requests' = << >>
    /\ raised' = None
    /\ UNCHANGED <<clock, active_workflow_plans, sandbox, design_tokens_store,
                   tool_state, runs>>

\* the extend section get_tailwind_config_from_tokens builds from the store
TailwindExtend(tokens) ==
    [colors |->
        [primary |-> Get(tokens["colors"], "primary"),
         secondary |-> Get(tokens["colors"], "secondary"),
         accent |-> Get(tokens["colors"], "accent"),
         background |-> Get(tokens["colors"], "background"),
         surface |-> Get(tokens["colors"], "surface"),
         muted |-> Get(tokens["colors"], "text_muted")],
     fontFamily |->
        [sans |-> <<GetDefault(tokens["typography"], "font_family", "Inter")>>,
         mono |-> <<GetDefault(tokens["typography"], "font_family_mono", "monospace")>>],
     borderRadius |->
        [sm |-> Get(tokens["borders"], "radius_sm"),
         md |-> Get(tokens["borders"], "radius_md"),
         lg |-> Get(tokens["borders"], "radius_lg")],
     spacing |->
        [xs |-> Get(tokens["spacing"], "xs"), sm |-> Get(tokens["spacing"], "sm"),
         md |-> Get(tokens["spacing"], "md"), lg |-> Get(tokens["spacing"], "lg"),
         xl |-> Get(tokens["spacing"], "xl")]]

\* the custom properties of the css_variables text, each with its default
CssVariables(tokens) ==
    [color_primary |-> GetDefault(tokens["colors"], "primary", "#3b82f6"),
     color_secondary |-> GetDefault(tokens["colors"], "secondary", "#6366f1"),
     color_accent |-> GetDefault(tokens["colors"], "accent", "#8b5cf6"),
     color_background |-> GetDefault(tokens["colors"], "background", "#0f172a"),
     color_surface |-> GetDefault(tokens["colors"], "surface", "#1e293b"),
     color_text |-> GetDefault(tokens["colors"], "text", "#f8fafc"),
     color_text_muted |-> GetDefault(tokens["colors"], "text_muted", "#94a3b8"),
     font_family |-> GetDefault(tokens["typography"], "font_family",
                                "Inter, system-ui, sans-serif"),
     font_family_mono |-> GetDefault(tokens["typography"], "font_family_mono",
                                     "monospace"),
     space_xs |-> GetDefault(tokens["spacing"], "xs", "4px"),
     space_sm |-> GetDefault(tokens["spacing"], "sm", "8px"),
     space_md |-> GetDefault(tokens["spacing"], "md", "16px"),
     space_lg |-> GetDefault(tokens["spacing"], "lg", "24px"),
     space_xl |-> GetDefault(tokens["spacing"], "xl", "32px"),
     radius_sm |-> GetDefault(tokens["borders"], "radius_sm", "4px"),
     radius_md |-> GetDefault(tokens["borders"], "radius_md", "8px"),
     radius_lg |-> GetDefault(tokens["borders"], "radius_lg", "12px")]

\* get_tailwind_config_from_tokens()
get_tailwind_config_from_tokens ==
    /\ calls < MaxCalls
    /\ calls' = calls + 1
    /\ call' = [op |-> "get_tailwind_config_from_tokens"]
    /\ ret' = [success |-> TRUE, error |-> "none",
               tailwind_config |-> [theme |-> [extend |-> TailwindExtend(design_tokens_store)]],
               css_variables |-> CssVariables(design_tokens_store)]
    /\ requests' = << >>
    /\ raised' = None
    /\ UNCHANGED <<clock, active_workflow_plans, sandbox, design_tokens_store,
                   tool_state, runs>>

\* one second passes
Tick ==
    /\ clock < MaxClock
    /\ clock' = clock + 1
    /\ UNCHANGED <<calls, active_workflow_plans, sandbox, design_tokens_store,
                   call, ret, requests, tool_state, runs, raised>>

----------------------------------------------------------------------------
(* The tool state (app/tools/tool_state.py) and the Business DNA           *)
(* extraction (app/tools/style_analyzer.py).  A dict is a record, a        *)
(* Python value that is not a dict is a record with the one key py_type.   *)

\* None, where the other values are dicts
NoDict == [py_type |-> "NoneType"]
\* a value of another type where a dict is expected
NonDict(type, truthy) == [py_type |-> type, py_truthy |-> truthy]
IsDict(v) == "py_type" \notin DOMAIN v
\* bool(v) of a dict, of None or of another value
TruthyValue(v) ==
    IF IsDict(v) THEN DOMAIN v /= {}
    ELSE IF v = NoDict THEN FALSE
    ELSE v["py_truthy"]

\* the (bytes, mime) tuples the middleware finds in the messages
Image1 == <<"png-bytes-1", "image/png">>
Image2 == <<"jpeg-bytes-2", "image/jpeg">>
ImageLists == {<< >>, <<Image1>>, <<Image2, Image1>>}

\* the dict literal that initialises _tool_state
InitialToolState ==
    [images |-> << >>, image_data |-> None, image_mime |-> None,
     business_dna |-> NoDict, component_templates |-> NoDict]

\* A response text of the model backend is the sequence of its pieces
\* between the ``` marks, text.split("```"); the piece after a mark is held
\* as [lang, body], lang being "json" when the piece starts with it.
PlainText(body) == <<[lang |-> "", body |-> body]>>
FencedText(before, lang, body) ==
    <<[lang |-> "", body |-> before], [lang |-> lang, body |-> body],
      [lang |-> "", body |-> ""]>>

\* the text with its Markdown fence removed and stripped: the piece after
\* the first ```json if there is one, else the piece after the first ```,
\* else the whole text
StripFence(text) ==
    LET json == {i \in 2..Len(text) : text[i].lang = "json"}
    IN  IF json /= {} THEN text[CHOOSE i \in json : \A j \in json : i <= j].body
        ELSE IF Len(text) >= 2 THEN text[2].lang \o text[2].body
        ELSE text[1].body

\* bodies of the responses to the DNA extraction prompt
BodyDnaA == "{\"colors\": {\"primary_accent\": \"#3B5BDB\"}, \"button_variants\": {\"primary\": {\"bg\": \"#4263EB\"}}}"
BodyDnaB == "{\"components\": {\"button_primary_bg\": \"#2563EB\"}, \"navbar\": {\"active_border_bottom\": \"2px solid #2563EB\"}}"
BodyDnaMood == "{\"colors\": {\"primary_accent\": \"#3B5BDB\"}, \"mood\": \"dark and technical\"}"
BodyProse == "The image shows a dark dashboard with a blue accent."
BodyNaN == "NaN"
BodyList == "[\"#3B5BDB\", \"#4263EB\"]"
\* 100000 opening brackets, deeper than the interpreter's recursion limit
BodyDeep == "[[[[[[[[[[ ... [[[[[[[[[["
\* bodies of the responses to the template prompt
BodyTemplates == "{\"header_code\": \"<header/>\", \"navbar_code\": \"<nav/>\", \"layout_code\": \"<main/>\"}"
BodyHeaderOnly == "{\"header_code\": \"<header/>\", \"navbar_code\": \"\"}"
BodyEmptyFields == "{\"header_code\": \"\", \"navbar_code\": \"\", \"layout_code\": \"\"}"
BodyEmptyObject == "{}"
BodyNoTemplates == "I could not produce templates."
BodyLooseHeader == "header_code: <header/>"
BodyLooseEmpty == "header_code:"

\* json.loads(s) for the bodies above: [kind, value]; kind is dict when the
\* text is a JSON object, the type of the value when it is another JSON
\* value (Python also takes NaN), and the exception raised otherwise
JsonLoads(s) ==
    CASE s = BodyDnaA ->
            [kind |-> "dict",
             value |-> [colors |-> [primary_accent |-> "#3B5BDB"],
                        button_variants |-> [primary |-> [bg |-> "#4263EB"]]]]
      [] s = BodyDnaB ->
            [kind |-> "dict",
             value |-> [components |-> [button_primary_bg |-> "#2563EB"],
                        navbar |-> [active_border_bottom |-> "2px solid #2563EB"]]]
      [] s = BodyDnaMood ->
            [kind |-> "dict",
             value |-> [colors |-> [primary_accent |-> "#3B5BDB"],
                        mood |-> NonDict("str", TRUE)]]
      [] s = BodyTemplates ->
            [kind |-> "dict",
             value |-> [header_code |-> "<header/>", navbar_code |-> "<nav/>",
                        layout_code |-> "<main/>"]]
      [] s = BodyHeaderOnly ->
            [kind |-> "dict", value |-> [header_code |-> "<header/>", navbar_code |-> ""]]
      [] s = BodyEmptyFields ->
            [kind |-> "dict",
             value |-> [header_code |-> "", navbar_code |-> "", layout_code |-> ""]]
      [] s = BodyEmptyObject -> [kind |-> "dict", value |-> << >>]
      [] s = BodyNaN -> [kind |-> "float", value |-> NonDict("float", TRUE)]
      [] s = BodyList -> [kind |-> "list", value |-> NonDict("list", TRUE)]
      [] s = BodyDeep -> [kind |-> "RecursionError", value |-> NoDict]
      [] OTHER -> [kind |-> "JSONDecodeError", value |-> NoDict]

\* _extract_code_blocks_from_response(text) for the texts above that are
\* not JSON: the fields its regular expressions find
ExtractCodeBlocks(text) ==
    CASE text = PlainText(BodyLooseHeader) -> [header_code |-> "<header/>"]
      [] text = PlainText(BodyLooseEmpty) -> [header_code |-> ""]
      [] OTHER -> << >>

\* the responses of the model backend to the DNA extraction prompt: the
\* call raises (timeout, transport error) or returns a text
NoResponse == [raises |-> TRUE, text |-> PlainText("")]
TextResponse(text) == [raises |-> FALSE, text |-> text]
AnalysisResponses ==
    {NoResponse,
     TextResponse(FencedText("Here is the design DNA: ", "json", BodyDnaA)),
     TextResponse(PlainText(BodyDnaB)),
     TextResponse(PlainText(BodyDnaMood)),
     TextResponse(PlainText(BodyProse)),
     TextResponse(FencedText("Sorry. ", "", BodyProse)),
     TextResponse(PlainText(BodyNaN)),
     TextResponse(PlainText(BodyList)),
     TextResponse(PlainText(BodyDeep))}
\* the responses of the model backend to the template prompt
TemplateResponses ==
    {NoResponse,
     TextResponse(FencedText("", "json", BodyTemplates)),
     TextResponse(PlainText(BodyHeaderOnly)),
     TextResponse(PlainText(BodyEmptyFields)),
     TextResponse(PlainText(BodyEmptyObject)),
     TextResponse(PlainText(BodyNoTemplates)),
     TextResponse(PlainText(BodyLooseHeader)),
     TextResponse(PlainText(BodyLooseEmpty)),
     TextResponse(PlainText(BodyList))}

\* the invocations of analyze_business_dna that can be under way at once
RunIds == {"run-1", "run-2"}
NoTemplatesResult == [success |-> FALSE, templates |-> << >>]
\* an invocation: where it is, its locals images, analysis_text,
\* business_dna, the response_text and templates of the template helper and
\* templates_result; overlapped tells whether another invocation was under
\* way at some moment of this one
IdleRun ==
    [pc |-> "idle", images |-> << >>, analysis_text |-> PlainText(""),
     business_dna |-> NoDict, response_text |-> PlainText(""),
     templates |-> NoDict, templates_result |-> NoTemplatesResult,
     overlapped |-> FALSE]
NoRuns == [r \in RunIds |-> IdleRun]

GEMINI_MODEL == "gemini-2.5-pro"

\* json.loads of the text without its fence raises something that the
\* except json.JSONDecodeError clause does not catch
ParseRaises(text) == JsonLoads(StripFence(text)).kind = "RecursionError"

\* business_dna after the try/except around json.loads: the parsed value,
\* or the fallback document with the raw text when the decoder rejects it
ParsedDna(analysis_text) ==
    LET parsed == JsonLoads(StripFence(analysis_text))
    IN  IF parsed.kind = "JSONDecodeError" THEN [raw_analysis |-> analysis_text]
        ELSE parsed.value

\* business_dna["_metadata"] = {...}
WithMetadata(business_dna, images) ==
    SetItem(business_dna, "_metadata",
            [image_count |-> Len(images), model |-> GEMINI_MODEL,
             extraction_type |-> "pixel_perfect"])

\* a tool call ends by raising
Raise(exception) == ret' = NoRet /\ raised' = exception
\* a tool call ends by returning
Return(result) == ret' = result /\ raised' = None

\* set_business_dna(dna): the slot is bound to the new document
SetBusinessDna(state, dna) == [state EXCEPT !.business_dna = dna]

\* the keys of templates whose value is not empty, in the order of the dict
TemplateNames(templates) ==
    SelectSeq(<<"header_code", "navbar_code", "layout_code">>,
              LAMBDA k : k \in DOMAIN templates /\ templates[k] /= "")

\* the local templates of _generate_component_templates_from_dna: the
\* parsed response, or what the regular expressions find in a text that the
\* decoder rejects; None when the call or the parsing raises
ParsedTemplates(response) ==
    LET parsed == JsonLoads(StripFence(response.text))
    IN  IF response.raises \/ ParseRaises(response.text) THEN NoDict
        ELSE IF parsed.kind = "JSONDecodeError" THEN ExtractCodeBlocks(response.text)
        ELSE parsed.value

\* the dict _generate_component_templates_from_dna returns: success with
\* the names when templates is truthy and set_component_templates went
\* through, which it does for a dict only
TemplatesResult(templates) ==
    IF TruthyValue(templates) /\ IsDict(templates)
    THEN [success |-> TRUE, templates |-> TemplateNames(templates)]
    ELSE NoTemplatesResult

\* _generate_dna_summary(dna) calls .get on each of these sections that
\* the document has: AttributeError when one of them is not a dict
SummarySections ==
    {"colors", "typography", "components", "layout_template", "common_patterns", "mood"}
SummaryRaises(dna) == \E k \in SummarySections \cap DOMAIN dna : ~IsDict(dna[k])

\* _generate_dna_summary(dna), for documents whose colors and components
\* are dicts: one line per section (the pictographs left out)
GenerateDnaSummary(dna) ==
    LET colors == IF "colors" \in DOMAIN dna
                  THEN <<"Colors: Primary "
                         \o GetDefault(dna["colors"], "primary", "N/A")
                         \o ", Secondary "
                         \o GetDefault(dna["colors"], "secondary", "N/A")>>
                  ELSE << >>
        components == IF "components" \in DOMAIN dna
                      THEN <<"Components: "
                             \o GetDefault(dna["components"], "border_radius", "rounded")
                             \o ", "
                             \o GetDefault(dna["components"], "shadow", "shadow-md")>>
                      ELSE << >>
    IN  IF colors \o components = << >>
        THEN <<"Design DNA extracted (see full details)">>
        ELSE colors \o components

\* has_component_templates(): the slot is not None and len() of it is not 0
HasComponentTemplates(state) ==
    /\ state.component_templates /= NoDict
    /\ TruthyValue(state.component_templates)

\* The prompt section is the list parts that _format_business_dna_for_prompt
\* joins with newlines, one string per item; the pictographs and the
\* newlines inside an item are left out.  The documents below have no
\* accent_colors, typography, spacing, layout_template, common_patterns,
\* ui_patterns or mood, so these sections of the formatter add nothing.

\* dict.items() goes through the keys in this order
ColorNames == <<"primary_accent", "header_bg">>
ComponentNames ==
    <<"button_primary_bg", "button_danger_bg", "button_add_bg", "button_add_border",
      "card_bg">>
\* value.startswith("#"), for the colour values of the documents below
StartsWithHash(value) == value \in {"#3B5BDB", "#111318"}
\* name.replace("_", " ").title()
Title(name) ==
    CASE name = "button_primary_bg" -> "Button Primary Bg"
      [] name = "button_danger_bg" -> "Button Danger Bg"
      [] name = "button_add_bg" -> "Button Add Bg"
      [] name = "button_add_border" -> "Button Add Border"
      [] name = "card_bg" -> "Card Bg"
      [] OTHER -> name
\* border.replace("1px dashed ", "").replace("1px dotted ", "")
WithoutDashed(border) ==
    CASE border = "1px dashed #3F3F46" -> "#3F3F46"
      [] border = "1px dotted #3F3F46" -> "#3F3F46"
      [] OTHER -> border
\* the same and .replace("1px solid ", "")
WithoutStyle(border) ==
    CASE border = "1px solid #52525B" -> "#52525B"
      [] OTHER -> WithoutDashed(border)

\* the item when the condition holds
When(cond, items) == IF cond THEN items ELSE << >>

ColorPaletteHead == "COLOR PALETTE (use these EXACT hex codes in Tailwind):"
ColorLine(name, value) ==
    When(StartsWithHash(value),
         <<"  - " \o name \o ": " \o value \o " -> use bg-[" \o value \o "], text-["
           \o value \o "], border-[" \o value \o "]">>)
\* for name, value in colors.items(): ..., over the names of order
RECURSIVE ColorLines(_, _)
ColorLines(colors, order) ==
    IF order = << >> THEN << >>
    ELSE When(Head(order) \in DOMAIN colors,
              ColorLine(Head(order), colors[Head(order)]))
         \o ColorLines(colors, Tail(order))
ColorPalette(dna) ==
    When("colors" \in DOMAIN dna,
         <<ColorPaletteHead>> \o ColorLines(dna["colors"], ColorNames))

\* the items of the button rules taken from button_variants
PrimaryHead == "PRIMARY BUTTONS (action buttons like 'Start', 'Create', 'Submit'):"
PrimaryBackground(bg) ==
    "   -> Background: bg-[" \o bg \o "] - MUST be blue/accent, NEVER white!"
PrimaryText == "   -> Text: text-white - ALWAYS white on colored buttons!"
DangerHead == "DANGER BUTTONS (destructive actions, 'START ALL ANALYSIS' style):"
DangerBackground(bg) == "   -> Background: bg-[" \o bg \o "]"
AddHead == "ADD/CREATE BUTTONS (often have dashed borders):"
AddBorder(style, border) == "   -> Border: border " \o style \o " border-[" \o border \o "]"
HasDict(d, key) == key \in DOMAIN d /\ IsDict(d[key])
VariantRules(dna) ==
    LET bv == dna["button_variants"]
        primary == bv["primary"]
        danger == bv["danger"]
        add_btn == bv["add_button"]
        bg == GetDefault(primary, "bg",
                         GetDefault(GetDefault(dna, "colors", << >>),
                                    "primary_accent", "#4263EB"))
    IN  <<PrimaryHead>>
        \o When(HasDict(bv, "primary"),
                <<PrimaryBackground(bg), PrimaryText>>
                \o When(Truthy(Get(primary, "gradient")),
                        <<"   -> Gradient: " \o primary["gradient"]>>))
        \o <<DangerHead>>
        \o When(HasDict(bv, "danger"),
                <<DangerBackground(GetDefault(danger, "bg", "#DC2626"))>>
                \o When(Truthy(Get(danger, "bg_gradient")),
                        <<"   -> Gradient: bg-gradient-to-r " \o danger["bg_gradient"]>>)
                \o <<"   -> Text: text-white">>
                \o When(Truthy(Get(danger, "shadow")),
                        <<"   -> Shadow/Glow: " \o danger["shadow"]>>))
        \o <<AddHead>>
        \o When(HasDict(bv, "add_button"),
                <<"   -> Background: bg-[" \o GetDefault(add_btn, "bg", "#1A1A1F") \o "]",
                  AddBorder(GetDefault(add_btn, "border_style", "dashed"),
                            WithoutDashed(GetDefault(add_btn, "border", "#3F3F46"))),
                  "   -> Text: text-[" \o GetDefault(add_btn, "text", "#9CA3AF") \o "]">>)

\* the items of the button rules taken from components
ComponentPrimaryBackground(bg) ==
    "   -> Background: bg-[" \o bg \o "] - MUST be this color, NEVER white!"
ComponentPrimaryText(text) ==
    "   -> Text: text-[" \o text \o "] - MUST be white on colored buttons!"
ComponentAddBorder(style, border) ==
    "   -> Border: border-" \o style \o " border-[" \o border \o "]"
ComponentRules(dna) ==
    LET comp == dna["components"]
    IN  <<"PRIMARY BUTTONS:">>
        \o When(Truthy(Get(comp, "button_primary_bg")),
                <<ComponentPrimaryBackground(comp["button_primary_bg"])>>)
        \o <<ComponentPrimaryText(GetDefault(comp, "button_primary_text", "#FFFFFF"))>>
        \o When(Truthy(Get(comp, "button_danger_bg")),
                <<"DANGER BUTTONS:", DangerBackground(comp["button_danger_bg"])>>
                \o When(Truthy(Get(comp, "button_danger_gradient")),
                        <<"   -> Gradient: " \o comp["button_danger_gradient"]>>))
        \o When(Truthy(Get(comp, "button_add_bg")),
                <<"ADD/CREATE BUTTONS:",
                  "   -> Background: bg-[" \o comp["button_add_bg"] \o "]",
                  ComponentAddBorder(GetDefault(comp, "button_add_border_style", "dashed"),
                                     WithoutStyle(GetDefault(comp, "button_add_border",
                                                             "#3F3F46")))>>)

\* if "button_variants" in dna ... elif "components" in dna
ButtonRules(dna) ==
    IF "button_variants" \in DOMAIN dna THEN VariantRules(dna)
    ELSE IF "components" \in DOMAIN dna THEN ComponentRules(dna)
    ELSE << >>

NavbarHead == "NAVBAR ACTIVE STATE (CRITICAL for visual consistency):"
NavbarIndicator(border) == "   -> Active indicator (bottom border): " \o border
NavbarIndicatorUse == "   -> Use: border-b-2 border-[#...] on active tab"
NavbarRules(dna) ==
    LET navbar == dna["navbar"]
    IN  When("navbar" \in DOMAIN dna,
             <<NavbarHead>>
             \o When(Truthy(Get(navbar, "item_bg_active")),
                     <<"   -> Active item background: bg-[" \o navbar["item_bg_active"]
                       \o "]">>)
             \o When(Truthy(Get(navbar, "item_text_active")),
                     <<"   -> Active item text: text-[" \o navbar["item_text_active"]
                       \o "]">>)
             \o When(Truthy(Get(navbar, "active_border_bottom"))
                        /\ Get(navbar, "active_border_bottom") /= "none",
                     <<NavbarIndicator(navbar["active_border_bottom"]),
                       NavbarIndicatorUse>>)
             \o When(Truthy(Get(navbar, "active_glow")),
                     <<"   -> Active glow effect: " \o navbar["active_glow"]>>))

ShadowHead == "SHADOWS (important for depth and visual hierarchy):"
HeaderShadow(shadow) == "   -> Header shadow: shadow-[" \o shadow \o "]"
HeaderShadowMust == "   -> MUST add shadow below header to separate from content!"
ShadowRules(dna) ==
    LET effects == dna["effects"]
    IN  When("effects" \in DOMAIN dna,
             <<ShadowHead>>
             \o When(Truthy(Get(effects, "header_drop_shadow")),
                     <<HeaderShadow(effects["header_drop_shadow"]), HeaderShadowMust>>)
             \o When(Truthy(Get(effects, "card_shadow")),
                     <<"   -> Card shadow: shadow-[" \o effects["card_shadow"] \o "]">>))

HeaderHead == "HEADER STYLING:"
HeaderDropShadow(shadow) == "   -> Drop shadow: " \o shadow
HeaderDropShadowAdd == "   -> Add shadow-[0_4px_12px_rgba(0,0,0,0.5)] or similar!"
HeaderRules(dna) ==
    LET header == dna["header"]
    IN  When("header" \in DOMAIN dna,
             <<HeaderHead>>
             \o When(Truthy(Get(header, "drop_shadow")),
                     <<HeaderDropShadow(header["drop_shadow"]), HeaderDropShadowAdd>>)
             \o When(Truthy(Get(header, "notification_badge_color")),
                     <<"   -> Notification badge: bg-["
                       \o header["notification_badge_color"] \o "]">>)
             \o When(Truthy(Get(header, "user_avatar_bg")),
                     <<"   -> Avatar background: bg-[" \o header["user_avatar_bg"]
                       \o "]">>))

ComponentLine(name, value) == <<"  - " \o Title(name) \o ": " \o value>>
\* for name, value in comp.items(): ..., over the names of order
RECURSIVE ComponentLines(_, _)
ComponentLines(comp, order) ==
    IF order = << >> THEN << >>
    ELSE When(Head(order) \in DOMAIN comp,
              ComponentLine(Head(order), comp[Head(order)]))
         \o ComponentLines(comp, Tail(order))
ComponentStyling(dna) ==
    When("components" \in DOMAIN dna,
         <<"COMPONENT STYLING:">> \o ComponentLines(dna["components"], ComponentNames))

\* the section with the stored templates and the checklist after it
TemplatesHead == "=== COMPONENT TEMPLATES - USE THESE EXACT COMPONENTS! ==="
TemplateHeads ==
    [header_code |-> "### HEADER TEMPLATE (include this EXACTLY in your component):",
     navbar_code |-> "### NAVBAR TEMPLATE (include this EXACTLY, pass activeStep prop):",
     layout_code |-> "### LAYOUT WRAPPER (your content goes in the {children} slot):"]
\* the items that open and close a fenced block, the fence mark written <fence>
FenceTsx == "<fence>tsx"
Fence == "<fence>"
TemplateBlock(templates, field) ==
    When(Truthy(Get(templates, field)),
         <<TemplateHeads[field], FenceTsx, templates[field], Fence>>)
TemplateChecklist ==
    <<"CRITICAL: Your generated screen MUST:",
      "1. Use the EXACT HeaderTemplate code - don't modify it",
      "2. Use the EXACT NavbarTemplate code - only change activeStep prop",
      "3. Put your screen content inside the LayoutTemplate",
      "4. The header and navbar must look IDENTICAL to the reference images">>
TemplateSection(templates) ==
    <<TemplatesHead,
      "These templates are extracted from the uploaded designs. USE THEM EXACTLY.">>
    \o TemplateBlock(templates, "header_code")
    \o TemplateBlock(templates, "navbar_code")
    \o TemplateBlock(templates, "layout_code")
    \o <<"=== END COMPONENT TEMPLATES ===">>
    \o TemplateChecklist

UseTemplatesExactly ==
    "4. USE THE COMPONENT TEMPLATES EXACTLY - they ensure visual consistency"
\* mutant: the closing instructions carry the time of the call
CriticalInstructions_Dated(has_templates) ==
    <<"CRITICAL INSTRUCTIONS (" \o Strftime(clock) \o "):",
      "1. Use the EXACT hex color codes provided, not generic Tailwind colors",
      "2. Follow the LAYOUT TEMPLATE structure exactly (sidebar position, header style, etc.)",
      "3. Apply the UI PATTERNS consistently (card layouts, navigation style, etc.)",
      IF has_templates THEN UseTemplatesExactly ELSE "">>
CriticalInstructions(has_templates) ==
    <<"CRITICAL INSTRUCTIONS:",
      "1. Use the EXACT hex color codes provided, not generic Tailwind colors",
      "2. Follow the LAYOUT TEMPLATE structure exactly (sidebar position, header style, etc.)",
      "3. Apply the UI PATTERNS consistently (card layouts, navigation style, etc.)",
      IF has_templates THEN UseTemplatesExactly ELSE "">>

\* templates.get(...) raises when the slot holds a value that is not a dict
FormatRaises(state, dna) ==
    TruthyValue(dna) /\ HasComponentTemplates(state) /\ ~IsDict(state.component_templates)

\* _format_business_dna_for_prompt(dna) with the templates of the state
FormatBusinessDnaForPrompt(state, dna) ==
    IF ~TruthyValue(dna) THEN << >>
    ELSE <<"=== BUSINESS DNA - APPLY THIS DESIGN SYSTEM! ===",
           "You MUST use these exact design specifications from the uploaded reference images:">>
         \o ColorPalette(dna)
         \o <<"CRITICAL COLOR RULES - MUST FOLLOW EXACTLY",
              "============================================================">>
         \o ButtonRules(dna)
         \o NavbarRules(dna)
         \o ShadowRules(dna)
         \o HeaderRules(dna)
         \o <<"============================================================",
              "END CRITICAL COLOR RULES">>
         \o ComponentStyling(dna)
         \o <<"=== END BUSINESS DNA ===">>
         \o When(HasComponentTemplates(state), TemplateSection(state.component_templates))
         \o CriticalInstructions(HasComponentTemplates(state))

\* dna = get_business_dna(); _format_business_dna_for_prompt(dna), as the
\* code generation tools do before they build their prompt
format_business_dna_for_prompt ==
    LET dna == tool_state.business_dna
    IN  /\ calls < MaxCalls
        /\ calls' = calls + 1
        /\ call' = [op |-> "_format_business_dna_for_prompt", dna |-> dna,
                    templates |-> tool_state.component_templates]
        /\ IF FormatRaises(tool_state, dna)
           THEN ret' = NoRet /\ raised' = "AttributeError"
           ELSE /\ ret' = [success |-> TRUE, error |-> "none",
                           text |-> FormatBusinessDnaForPrompt(tool_state, dna)]
                /\ raised' = None
        /\ requests' = << >>
        /\ UNCHANGED <<clock, active_workflow_plans, sandbox, design_tokens_store,
                       tool_state, runs>>

\* set_images_in_state(images), as the middleware calls it with the
\* images of the last message
set_images_in_state(images) ==
    /\ tool_state' =
          [tool_state EXCEPT
              !.images = images,
              !.image_data = IF images /= << >> THEN images[1][1] ELSE None,
              !.image_mime = IF images /= << >> THEN images[1][2] ELSE None]
    /\ UNCHANGED <<clock, calls, active_workflow_plans, sandbox, design_tokens_store,
                   call, ret, requests, runs, raised>>

\* set_image_in_state(image_data, image_mime): the single-image slot takes
\* the arguments as they are, the list follows the truthiness of image_data
set_image_in_state(image_data, image_mime) ==
    /\ tool_state' =
          [tool_state EXCEPT
              !.image_data = image_data,
              !.image_mime = image_mime,
              !.images = IF Truthy(image_data) THEN <<<<image_data, image_mime>>>>
                         ELSE << >>]
    /\ call' = [op |-> "set_image_in_state", image_data |-> image_data,
                image_mime |-> image_mime]
    /\ UNCHANGED <<clock, calls, active_workflow_plans, sandbox, design_tokens_store,
                   ret, requests, runs, raised>>

\* the tool state after clear_image_state()
ClearedImages(state) ==
    [state EXCEPT !.image_data = None, !.image_mime = None, !.images = << >>]

\* clear_image_state()
clear_image_state ==
    /\ tool_state' = ClearedImages(tool_state)
    /\ call' = [op |-> "clear_image_state"]
    /\ UNCHANGED <<clock, calls, active_workflow_plans, sandbox, design_tokens_store,
                   ret, requests, runs, raised>>

\* extract_images_from_state(state); images is what
\* extract_all_images_from_messages finds in the messages of the state: it
\* goes to set_images_in_state, and without images the state is cleared
extract_images_from_state(images) ==
    /\ tool_state' =
          IF images /= << >>
          THEN [tool_state EXCEPT !.images = images, !.image_data = images[1][1],
                                  !.image_mime = images[1][2]]
          ELSE ClearedImages(tool_state)
    /\ call' = [op |-> "extract_images_from_state", images |-> images]
    /\ UNCHANGED <<clock, calls, active_workflow_plans, sandbox, design_tokens_store,
                   ret, requests, runs, raised>>

\* analyze_business_dna, up to the request to the model backend: without
\* images in the state it returns a failure at once
analyze_business_dna_start(r) ==
    LET images == tool_state.images
        under_way == {q \in RunIds : runs[q].pc /= "idle"}
    IN  /\ runs[r].pc = "idle"
        /\ calls < MaxCalls
        /\ calls' = calls + 1
        /\ IF images = << >>
           THEN /\ call' = [op |-> "analyze_business_dna", run |-> r,
                            images |-> images, backend_raised |-> FALSE,
                            analysis_text |-> PlainText(""), templates |-> NoDict]
                /\ ret' = [success |-> FALSE, error |-> "no_images"]
                /\ raised' = None
                /\ requests' = << >>
                /\ UNCHANGED runs
           ELSE /\ runs' = [q \in RunIds |->
                              IF q = r
                              THEN [IdleRun EXCEPT !.pc = "extract", !.images = images,
                                                   !.overlapped = under_way /= {}]
                              ELSE IF q \in under_way
                              THEN [runs[q] EXCEPT !.overlapped = TRUE]
                              ELSE runs[q]]
                /\ UNCHANGED <<call, ret, raised, requests>>
        /\ UNCHANGED <<clock, active_workflow_plans, sandbox, design_tokens_store,
                       tool_state>>

\* analyze_business_dna, from the response of the backend to
\* set_business_dna: the text is parsed, the _metadata block added and the
\* document stored; whatever is raised on the way ends the call with a
\* failure (the except Exception clause)
analyze_business_dna_extract(r, response) ==
    LET images == runs[r].images
        analysis_text == response.text
        parsed == ParsedDna(analysis_text)
        fails == response.raises \/ ParseRaises(analysis_text) \/ ~IsDict(parsed)
        business_dna == WithMetadata(parsed, images)
    IN  /\ runs[r].pc = "extract"
        /\ IF fails
           THEN /\ call' = [op |-> "analyze_business_dna", run |-> r,
                            images |-> images, backend_raised |-> response.raises,
                            analysis_text |-> analysis_text, templates |-> NoDict]
                /\ ret' = [success |-> FALSE, error |-> "analysis_failed"]
                /\ raised' = None
                /\ requests' = << >>
                /\ runs' = [runs EXCEPT ![r] = IdleRun]
                /\ UNCHANGED tool_state
           ELSE /\ tool_state' = SetBusinessDna(tool_state, business_dna)
                /\ runs' = [runs EXCEPT ![r].pc = "templates",
                                        ![r].analysis_text = analysis_text,
                                        ![r].business_dna = business_dna]
                /\ UNCHANGED <<call, ret, raised, requests>>
        /\ UNCHANGED <<clock, calls, active_workflow_plans, sandbox, design_tokens_store>>

\* analyze_business_dna, _generate_component_templates_from_dna: the
\* response of the backend is parsed and, when it is truthy, handed to
\* set_component_templates, which stores it before it asks for its keys
analyze_business_dna_templates(r, response) ==
    LET templates == ParsedTemplates(response)
    IN  /\ runs[r].pc = "templates"
        /\ tool_state' = IF TruthyValue(templates)
                         THEN [tool_state EXCEPT !.component_templates = templates]
                         ELSE tool_state
        /\ runs' = [runs EXCEPT ![r].pc = "summary",
                                ![r].response_text = response.text,
                                ![r].templates = templates,
                                ![r].templates_result = TemplatesResult(templates)]
        /\ UNCHANGED <<clock, calls, active_workflow_plans, sandbox, design_tokens_store,
                       call, ret, requests, raised>>

\* analyze_business_dna, the summary and the returned dict; when the
\* summary raises, the except Exception clause returns a failure
analyze_business_dna_return(r) ==
    /\ runs[r].pc = "summary"
    /\ call' = [op |-> "analyze_business_dna", run |-> r, images |-> runs[r].images,
                backend_raised |-> FALSE, analysis_text |-> runs[r].analysis_text,
                templates |-> runs[r].templates]
    /\ ret' = IF SummaryRaises(runs[r].business_dna)
              THEN [success |-> FALSE, error |-> "analysis_failed"]
              ELSE [success |-> TRUE, error |-> "none",
                    image_count |-> Len(runs[r].images),
                    business_dna |-> runs[r].business_dna,
                    summary |-> GenerateDnaSummary(runs[r].business_dna),
                    templates_generated |-> runs[r].templates_result.success,
                    template_names |-> runs[r].templates_result.templates]
    /\ raised' = None
    /\ requests' = << >>
    /\ runs' = [runs EXCEPT ![r] = IdleRun]
    /\ UNCHANGED <<clock, calls, active_workflow_plans, sandbox, design_tokens_store,
                   tool_state>>

\* mutant: the reader takes the document out of the slot
get_current_business_dna_Consumes ==
    LET dna == tool_state.business_dna
    IN  /\ calls < MaxCalls
        /\ calls' = calls + 1
        /\ call' = [op |-> "get_current_business_dna"]
        /\ IF TruthyValue(dna) /\ SummaryRaises(dna) THEN Raise("AttributeError")
           ELSE IF TruthyValue(dna)
           THEN Return([success |-> TRUE, error |-> "none", has_business_dna |-> TRUE,
                        business_dna |-> dna, summary |-> GenerateDnaSummary(dna)])
           ELSE Return([success |-> TRUE, error |-> "none", has_business_dna |-> FALSE])
        /\ requests' = << >>
        /\ tool_state' = [tool_state EXCEPT !.business_dna = NoDict]
        /\ UNCHANGED <<clock, active_workflow_plans, sandbox, design_tokens_store, runs>>

\* get_current_business_dna()
get_current_business_dna ==
    LET dna == tool_state.business_dna
    IN  /\ calls < MaxCalls
        /\ calls' = calls + 1
        /\ call' = [op |-> "get_current_business_dna"]
        /\ IF TruthyValue(dna) /\ SummaryRaises(dna) THEN Raise("AttributeError")
           ELSE IF TruthyValue(dna)
           THEN Return([success |-> TRUE, error |-> "none", has_business_dna |-> TRUE,
                        business_dna |-> dna, summary |-> GenerateDnaSummary(dna)])
           ELSE Return([success |-> TRUE, error |-> "none", has_business_dna |-> FALSE])
        /\ requests' = << >>
        /\ UNCHANGED <<clock, active_workflow_plans, sandbox, design_tokens_store,
                       tool_state, runs>>

----------------------------------------------------------------------------
(* The screen tools (app/tools/screen_manager.py).  Each tool sends one     *)
(* request to the sandbox; reply tells what comes back.                     *)

\* what a request to the sandbox can end in: the sandbox serves it and
\* answers with the JSON object of its API; urlopen raises (timeout,
\* connection refused, HTTP error); the body is not JSON; the body is the
\* JSON text null; the body is the JSON text []
Replies == {"served", "timeout", "not_json", "null", "array"}
\* the replies after which the sandbox may have carried out the request
BodyReplies == {"served", "not_json", "null", "array"}

\* _make_request(url, method, data): the parsed body, or the error dict of
\* its except clauses; served is the object the sandbox answers with
MakeRequest(reply, served) ==
    CASE reply = "served" -> served
      [] reply = "timeout" -> [success |-> FALSE, error |-> "Connection error"]
      [] reply = "not_json" -> [success |-> FALSE, error |-> "Expecting value"]
      [] reply = "null" -> NoDict
      [] reply = "array" -> NonDict("list", FALSE)

\* what `"error" in result` and result.get(...) raise on a result that is
\* not a dict: None is not iterable, a list has no get
RaisedByIn(result) == IF result = NoDict THEN "TypeError" ELSE None
RaisedByGet(result) == IF IsDict(result) THEN None ELSE "AttributeError"

\* the records of the sandbox with the id
WithId(id) == {i \in DOMAIN sandbox : sandbox[i].id = id}
\* the sandbox after a DELETE ?id=
SandboxDelete(id) == SelectSeq(sandbox, LAMBDA rec : rec.id /= id)
NotFound == [error |-> "Component not found"]

\* the metadata of a record as the tools return it
ScreenOf(rec) == [id |-> rec.id, name |-> rec.name, filename |-> rec.filename]


\* list_screens()
list_screens(reply) ==
    LET result == MakeRequest(reply, [components |-> sandbox])
    IN  /\ calls < MaxCalls
        /\ calls' = calls + 1
        /\ call' = [op |-> "list_screens", reply |-> reply]
        /\ requests' = <<"GET">>
        /\ IF RaisedByIn(result) /= None THEN Raise(RaisedByIn(result))
           ELSE IF IsDict(result) /\ "error" \in DOMAIN result
           THEN Return([success |-> FALSE, error |-> result.error])
           ELSE IF RaisedByGet(result) /= None THEN Raise(RaisedByGet(result))
           ELSE Return([success |-> TRUE, error |-> "none",
                        screens |-> [i \in DOMAIN sandbox |-> ScreenOf(sandbox[i])],
                        count |-> Len(sandbox)])
        /\ UNCHANGED <<clock, active_workflow_plans, sandbox, design_tokens_store,
                       tool_state, runs>>

\* what load_screen(screen_id) returns or raises for the reply: [raised,
\* result]; null_code tells that the served object has null for its code
LoadScreen(screen_id, reply, null_code) ==
    LET hits == WithId(screen_id)
        rec == sandbox[CHOOSE i \in hits : TRUE]
        served == IF hits = {} THEN NotFound
                  ELSE [id |-> rec.id, name |-> rec.name, filename |-> rec.filename,
                        code |-> IF null_code THEN None ELSE rec.code]
        result == MakeRequest(reply, served)
    IN  IF RaisedByIn(result) /= None
        THEN [raised |-> RaisedByIn(result), result |-> NoRet]
        ELSE IF IsDict(result) /\ "error" \in DOMAIN result
        THEN [raised |-> None, result |-> [success |-> FALSE, error |-> result.error]]
        ELSE IF RaisedByGet(result) /= None
        THEN [raised |-> RaisedByGet(result), result |-> NoRet]
        ELSE [raised |-> None,
              result |-> [success |-> TRUE, error |-> "none", screen |-> ScreenOf(rec),
                          code |-> result.code]]

\* load_screen(screen_id=...)
load_screen(screen_id, reply, null_code) ==
    LET loaded == LoadScreen(screen_id, reply, null_code)
    IN  /\ calls < MaxCalls
        /\ calls' = calls + 1
        /\ call' = [op |-> "load_screen", screen_id |-> screen_id, reply |-> reply]
        /\ IF ~Truthy(screen_id)
           THEN /\ requests' = << >>
                /\ Return([success |-> FALSE, error |-> "id_or_name_required"])
           ELSE /\ requests' = <<"GET">>
                /\ ret' = loaded.result
                /\ raised' = loaded.raised
        /\ UNCHANGED <<clock, active_workflow_plans, sandbox, design_tokens_store,
                       tool_state, runs>>

\* update_screen(screen_id, new_code): applied tells whether the sandbox
\* carried out the PUT
update_screen(screen_id, new_code, reply, applied) ==
    LET hits == WithId(screen_id)
        rec == sandbox[CHOOSE i \in hits : TRUE]
        served == IF hits = {} THEN NotFound
                  ELSE [success |-> TRUE, component |-> ScreenOf(rec)]
        result == MakeRequest(reply, served)
        sent == Truthy(screen_id) /\ Truthy(new_code)
    IN  /\ calls < MaxCalls
        /\ calls' = calls + 1
        /\ call' = [op |-> "update_screen", screen_id |-> screen_id, reply |-> reply]
        /\ requests' = IF sent THEN <<"PUT">> ELSE << >>
        /\ sandbox' = IF sent /\ applied /\ hits /= {} THEN SandboxPut(screen_id, new_code)
                      ELSE sandbox
        /\ IF ~Truthy(screen_id) THEN Return([success |-> FALSE, error |-> "screen_id_required"])
           ELSE IF ~Truthy(new_code) THEN Return([success |-> FALSE, error |-> "new_code_required"])
           ELSE IF RaisedByGet(result) /= None THEN Raise(RaisedByGet(result))
           ELSE IF "success" \in DOMAIN result /\ result.success
           THEN Return([success |-> TRUE, error |-> "none", screen |-> result.component,
                        code |-> new_code])
           ELSE Return([success |-> FALSE, error |-> result.error])
        /\ UNCHANGED <<clock, active_workflow_plans, design_tokens_store, tool_state, runs>>

\* create_screen(name, code): applied tells whether the sandbox carried
\* out the POST
create_screen(name, code, reply, applied) ==
    LET served == [success |-> TRUE,
                   component |-> [id |-> NewComponentId, name |-> name,
                                  filename |-> name \o ".tsx"]]
        result == MakeRequest(reply, served)
        sent == Truthy(name) /\ Truthy(code)
    IN  /\ calls < MaxCalls
        /\ calls' = calls + 1
        /\ call' = [op |-> "create_screen", name |-> name, reply |-> reply]
        /\ requests' = IF sent THEN <<"POST">> ELSE << >>
        /\ sandbox' = IF sent /\ applied THEN SandboxCreate(code, name) ELSE sandbox
        /\ IF ~Truthy(name) THEN Return([success |-> FALSE, error |-> "name_required"])
           ELSE IF ~Truthy(code) THEN Return([success |-> FALSE, error |-> "code_required"])
           ELSE IF RaisedByGet(result) /= None THEN Raise(RaisedByGet(result))
           ELSE IF "success" \in DOMAIN result /\ result.success
           THEN Return([success |-> TRUE, error |-> "none", screen |-> result.component])
           ELSE Return([success |-> FALSE, error |-> result.error])
        /\ UNCHANGED <<clock, active_workflow_plans, design_tokens_store, tool_state, runs>>

\* delete_screen(screen_id): applied tells whether the sandbox carried out
\* the DELETE
delete_screen(screen_id, reply, applied) ==
    LET hits == WithId(screen_id)
        served == IF hits = {} THEN NotFound ELSE [success |-> TRUE]
        result == MakeRequest(reply, served)
        sent == Truthy(screen_id)
    IN  /\ calls < MaxCalls
        /\ calls' = calls + 1
        /\ call' = [op |-> "delete_screen", screen_id |-> screen_id, reply |-> reply]
        /\ requests' = IF sent THEN <<"DELETE">> ELSE << >>
        /\ sandbox' = IF sent /\ applied THEN SandboxDelete(screen_id) ELSE sandbox
        /\ IF ~sent THEN Return([success |-> FALSE, error |-> "screen_id_required"])
           ELSE IF RaisedByGet(result) /= None THEN Raise(RaisedByGet(result))
           ELSE IF "success" \in DOMAIN result /\ result.success
           THEN Return([success |-> TRUE, error |-> "none"])
           ELSE Return([success |-> FALSE, error |-> result.error])
        /\ UNCHANGED <<clock, active_workflow_plans, design_tokens_store, tool_state, runs>>

\* one pass of the loop of compare_screen_variants: the entry for the
\* screen, or what load_screen or len(code) raises
CompareEntry(screen_id, reply, null_code) ==
    LET loaded == LoadScreen(screen_id, reply, null_code)
        result == loaded.result
    IN  IF loaded.raised /= None THEN [raised |-> loaded.raised, entry |-> NoRet]
        ELSE IF ~result.success
        THEN [raised |-> None, entry |-> [id |-> screen_id, error |-> result.error]]
        ELSE IF result.code = None THEN [raised |-> "TypeError", entry |-> NoRet]
        ELSE [raised |-> None,
              entry |-> [id |-> screen_id, name |-> result.screen.name,
                         code |-> result.code]]

\* compare_screen_variants(screen_ids), with the reply to each load
compare_screen_variants(screen_ids, replies, null_codes) ==
    LET n == Len(screen_ids)
        entries == [i \in 1..n |-> CompareEntry(screen_ids[i], replies[i], null_codes[i])]
        failing == {i \in 1..n : entries[i].raised /= None}
        first == CHOOSE i \in failing : \A j \in failing : i <= j
        screens == [i \in 1..n |-> entries[i].entry]
        successful == {i \in 1..n : "code" \in DOMAIN screens[i]}
    IN  /\ calls < MaxCalls
        /\ calls' = calls + 1
        /\ call' = [op |-> "compare_screen_variants", screen_ids |-> screen_ids,
                    replies |-> replies]
        /\ IF n < 2
           THEN /\ requests' = << >>
                /\ Return([success |-> FALSE, error |-> "at_least_2"])
           ELSE IF n > 4
           THEN /\ requests' = << >>
                /\ Return([success |-> FALSE, error |-> "at_most_4"])
           ELSE IF failing /= {}
           THEN /\ requests' = [i \in 1..first |-> "GET"]
                /\ Raise(entries[first].raised)
           ELSE /\ requests' = [i \in 1..n |-> "GET"]
                /\ Return([success |-> Cardinality(successful) >= 2, error |-> "none",
                           screens |-> screens, loaded_count |-> Cardinality(successful)])
        /\ UNCHANGED <<clock, active_workflow_plans, sandbox, design_tokens_store,
                       tool_state, runs>>

\* get_existing_component_code(component_id, filename): the code of the
\* record with the id, else of the first record with the filename; None
\* when there is none or when the GET fails
GetExistingComponentCode(component_id, filename, get) ==
    LET hits == IF Truthy(component_id) THEN WithId(component_id)
                ELSE {i \in DOMAIN sandbox : sandbox[i].filename = filename}
    IN  IF get = "ok" /\ hits /= {}
        THEN sandbox[CHOOSE i \in hits : \A j \in hits : i <= j].code
        ELSE None

\* f"Modified_{len(_generated_code)}": only image_to_code adds to
\* _generated_code, which no action here does
ModifiedName == "Modified_0"

\* modify_code(modification_request, current_code, component_id,
\* component_filename); get and write are the outcomes of the sandbox's GET
\* and of its PUT or POST, response is what the backend answers: it raises,
\* or its structured reply has the code modified_code
modify_code(current_code, component_id, component_filename, get, response, write) ==
    LET by_id == Truthy(component_id)
        by_filename == ~by_id /\ Truthy(component_filename)
        code_to_modify == IF by_id \/ by_filename
                          THEN GetExistingComponentCode(component_id, component_filename, get)
                          ELSE current_code
        update_existing == (by_id \/ by_filename) /\ Truthy(code_to_modify)
        existing_component_id == IF by_id /\ update_existing THEN component_id ELSE None
        context_raises == tool_state.business_dna /= NoDict
                          /\ FormatRaises(tool_state, tool_state.business_dna)
        modified_code == response.code
        put == update_existing /\ Truthy(existing_component_id)
    IN  /\ calls < MaxCalls
        /\ calls' = calls + 1
        /\ call' = [op |-> "modify_code", current_code |-> current_code,
                    component_id |-> component_id,
                    component_filename |-> component_filename,
                    get |-> get, write |-> write]
        /\ raised' = None
        /\ IF ~Truthy(code_to_modify)
           THEN /\ ret' = [success |-> FALSE,
                           error |-> IF by_id THEN "id_not_found"
                                     ELSE IF by_filename THEN "filename_not_found"
                                     ELSE "nothing_to_modify"]
                /\ requests' = IF by_id \/ by_filename THEN <<"GET">> ELSE << >>
                /\ UNCHANGED sandbox
           ELSE IF context_raises \/ response.raises
           THEN /\ ret' = [success |-> FALSE, error |-> "modification_failed"]
                /\ requests' = IF by_id \/ by_filename THEN <<"GET">> ELSE << >>
                /\ UNCHANGED sandbox
           ELSE IF put
           THEN /\ ret' = [success |-> TRUE, error |-> "none", code |-> modified_code,
                           component_id |-> existing_component_id,
                           component_name |-> "Updated Component"]
                /\ requests' = <<"GET", "PUT">>
                /\ sandbox' = IF write = "ok"
                              THEN SandboxPut(existing_component_id, modified_code)
                              ELSE sandbox
           ELSE /\ ret' = [success |-> TRUE, error |-> "none", code |-> modified_code,
                           component_id |-> None, component_name |-> ModifiedName]
                /\ requests' = (IF by_filename THEN <<"GET">> ELSE << >>) \o <<"POST">>
                /\ sandbox' = IF write = "ok" THEN SandboxCreate(modified_code, ModifiedName)
                              ELSE sandbox
        /\ UNCHANGED <<clock, active_workflow_plans, design_tokens_store, tool_state, runs>>

----------------------------------------------------------------------------
(* Specification of the workflow tracker *)

Init ==
    /\ clock = 0
    /\ calls = 0
    /\ active_workflow_plans = [w \in {} |-> None]
    /\ sandbox = <<>>
    /\ design_tokens_store = TokenDefaults(None)
    /\ call = NoCall
    /\ ret = NoRet
    /\ requests = <<>>
    /\ tool_state = InitialToolState
    /\ runs = NoRuns
    /\ raised = None

\* the plan has a component_id, so that an update talks to the sandbox
HasComponent(workflow_id) ==
    /\ workflow_id \in DOMAIN active_workflow_plans
    /\ Truthy(active_workflow_plans[workflow_id].component_id)

GenerateWorkflowPlan ==
    \E steps \in StepNameLists, post \in {"ok", "fail"} :
        generate_workflow_plan(steps, post)

\* updates that link no component
UpdateWorkflowStep ==
    \E workflow_id \in WorkflowIds, step_id \in StepIds, status \in Statuses,
       out \in Outcomes :
        /\ ~HasComponent(workflow_id) => out = <<"ok", "ok">>
        /\ update_workflow_step(workflow_id, step_id, status, None, None,
                                out[1], out[2])

Next == GenerateWorkflowPlan \/ UpdateWorkflowStep \/ Tick

Spec == Init /\ [][Next]_vars

----------------------------------------------------------------------------
(* Specification of the linked-component metadata: one plan, updates with  *)
(* every combination of linked_component_id and linked_component_name      *)

UpdateWorkflowStepLinked ==
    \E step_id \in StepIds, status \in Statuses,
       linked_component_id \in LinkedIds, linked_component_name \in LinkedNames :
        update_workflow_step(WorkflowId(clock), step_id, status,
                             linked_component_id, linked_component_name, "ok", "ok")

NextLinks == GenerateWorkflowPlan \/ UpdateWorkflowStepLinked

SpecLinks == Init /\ [][NextLinks]_vars

----------------------------------------------------------------------------
(* Specification of the progress arithmetic: one plan of up to MaxTotal    *)
(* steps, as generate_workflow_plan (whose save to the sandbox failed) and *)
(* updates that completed its first steps leave it; updates of the steps   *)
(* at the border between the complete and the other steps                  *)

\* the plan of n steps, the first c of them complete
ProgressPlan(n, c) ==
    [task_description |-> TaskDescription,
     steps |-> [i \in 1..n |->
                  [id |-> StepId(i), title |-> "Screen " \o ToString(i),
                   status |-> IF i <= c THEN "complete" ELSE "pending",
                   linkedComponentId |-> None, linkedComponentName |-> None]],
     component_id |-> None]

InitProgress ==
    /\ clock = 0
    /\ calls = 0
    /\ \E n \in 1..MaxTotal, c \in 0..MaxTotal :
          /\ c <= n
          /\ active_workflow_plans = [w \in {WorkflowId(0)} |-> ProgressPlan(n, c)]
    /\ sandbox = <<>>
    /\ design_tokens_store = TokenDefaults(None)
    /\ call = NoCall
    /\ ret = NoRet
    /\ requests = <<>>
    /\ tool_state = InitialToolState
    /\ runs = NoRuns
    /\ raised = None

UpdateProgressStep ==
    LET steps == active_workflow_plans[WorkflowId(0)].steps
        completed == CompletedCount(steps)
    IN  \E i \in {completed, completed + 1} \cap DOMAIN steps, status \in Statuses :
            update_workflow_step(WorkflowId(0), StepId(i), status, None, None,
                                 "ok", "ok")

NextProgress == UpdateProgressStep

SpecProgress == InitProgress /\ [][NextProgress]_vars

----------------------------------------------------------------------------
(* Specification of the Business DNA extraction, one invocation at a      *)
(* time: the middleware sets the images, analyze_business_dna runs with    *)
(* every response of the backend, get_current_business_dna reads the slot  *)

SetImagesInState == \E images \in ImageLists : set_images_in_state(images)

AnalyzeStart == analyze_business_dna_start("run-1")

AnalyzeExtract ==
    \E response \in AnalysisResponses : analyze_business_dna_extract("run-1", response)

AnalyzeTemplates ==
    \E response \in TemplateResponses : analyze_business_dna_templates("run-1", response)

AnalyzeReturn == analyze_business_dna_return("run-1")

NextDna ==
    \/ SetImagesInState
    \/ AnalyzeStart
    \/ AnalyzeExtract
    \/ AnalyzeTemplates
    \/ AnalyzeReturn
    \/ get_current_business_dna

SpecDna == Init /\ [][NextDna]_vars

----------------------------------------------------------------------------
(* Specification of overlapping extractions: the tool node runs the tool   *)
(* calls of one message in parallel, so two invocations of                 *)
(* analyze_business_dna interleave at their accesses to the tool state     *)

OverlapAnalysisResponses ==
    {TextResponse(FencedText("Here is the design DNA: ", "json", BodyDnaA)),
     TextResponse(PlainText(BodyDnaB)),
     TextResponse(PlainText(BodyProse))}
OverlapTemplateResponses ==
    {NoResponse, TextResponse(FencedText("", "json", BodyTemplates))}

OverlapStart == \E r \in RunIds : analyze_business_dna_start(r)

OverlapExtract ==
    \E r \in RunIds, response \in OverlapAnalysisResponses :
        analyze_business_dna_extract(r, response)

OverlapTemplates ==
    \E r \in RunIds, response \in OverlapTemplateResponses :
        analyze_business_dna_templates(r, response)

OverlapReturn == \E r \in RunIds : analyze_business_dna_return(r)

NextOverlap ==
    \/ SetImagesInState
    \/ OverlapStart
    \/ OverlapExtract
    \/ OverlapTemplates
    \/ OverlapReturn
    \/ get_current_business_dna

SpecOverlap == Init /\ [][NextOverlap]_vars

----------------------------------------------------------------------------
(* Specification of the image state: the middleware and the callers of     *)
(* the tool state set and clear the images between extractions, so that    *)
(* the image calls meet every content of the DNA and template slots        *)

\* the arguments of set_image_in_state: bytes or None, a MIME type or None
ImageDataArgs == {None, "", "png-bytes-1"}
ImageMimeArgs == {None, "image/png"}

SetImageInState ==
    \E image_data \in ImageDataArgs, image_mime \in ImageMimeArgs :
        set_image_in_state(image_data, image_mime)

ExtractImagesFromState == \E images \in ImageLists : extract_images_from_state(images)

ImagesAnalyzeExtract ==
    \E response \in OverlapAnalysisResponses :
        analyze_business_dna_extract("run-1", response)

ImagesAnalyzeTemplates ==
    \E response \in OverlapTemplateResponses :
        analyze_business_dna_templates("run-1", response)

NextImages ==
    \/ SetImagesInState
    \/ SetImageInState
    \/ clear_image_state
    \/ ExtractImagesFromState
    \/ AnalyzeStart
    \/ ImagesAnalyzeExtract
    \/ ImagesAnalyzeTemplates
    \/ AnalyzeReturn

SpecImages == Init /\ [][NextImages]_vars

----------------------------------------------------------------------------
(* Specification of the readers: the state holds a DNA document and a      *)
(* template set that an extraction has stored, the token store is the      *)
(* default one or an updated one, and the operations that only read are    *)
(* called                                                                  *)

\* the sections a document of the backend may hold under each key
ColorsSections ==
    {<< >>, [colors |-> [primary_accent |-> "#3B5BDB", header_bg |-> "rgb(17, 19, 24)"]]}
ButtonVariantsSections ==
    {<< >>,
     [button_variants |-> [primary |-> [bg |-> "#4263EB"]]],
     [button_variants |-> [primary |-> [gradient |-> "from-blue-500 to-indigo-600"]]],
     [button_variants |-> [primary |-> NoDict]],
     [button_variants |->
        [primary |-> [bg |-> "#4263EB", gradient |-> "from-blue-500 to-indigo-600"],
         danger |-> [bg |-> "#DC2626", shadow |-> "0 0 20px rgba(220,38,38,0.4)"],
         add_button |-> [border |-> "1px dashed #3F3F46", border_style |-> "dashed"]]]}
ComponentsSections ==
    {<< >>,
     [components |-> [card_bg |-> "#1A1A1F"]],
     [components |->
        [button_primary_bg |-> "#2563EB", button_danger_bg |-> "#EF4444",
         button_add_bg |-> "#1A1A1F", button_add_border |-> "1px solid #52525B"]]}
NavbarSections ==
    {<< >>,
     [navbar |-> [active_border_bottom |-> "2px solid #2563EB"]],
     [navbar |-> [active_border_bottom |-> "none", item_bg_active |-> "#3B5BDB"]]}
EffectsSections ==
    {<< >>, [effects |-> [header_drop_shadow |-> "0 4px 12px rgba(0,0,0,0.5)"]]}
HeaderSections ==
    {<< >>, [header |-> [drop_shadow |-> "0 4px 12px rgba(0,0,0,0.5)"]]}

\* the values business_dna can have before its _metadata is set: a JSON
\* object made of the sections above, or the fallback for a text that is
\* not JSON
DnaDocuments ==
    {DictUpdate(c, DictUpdate(b, DictUpdate(k, DictUpdate(n, DictUpdate(e, h))))) :
        c \in ColorsSections, b \in ButtonVariantsSections, k \in ComponentsSections,
        n \in NavbarSections, e \in EffectsSections, h \in HeaderSections}
    \cup {ParsedDna(PlainText(BodyProse))}

\* what set_business_dna has stored, or None
StoredDna == {NoDict} \cup {WithMetadata(d, <<Image1>>) : d \in DnaDocuments}

\* what the template helper has stored, or None
StoredTemplates ==
    {NoDict} \cup {ParsedTemplates(response) : response \in
                      {r \in TemplateResponses : TruthyValue(ParsedTemplates(r))}}

\* the token store as created and after an update of its colours
StoredTokens ==
    {TokenDefaults(None),
     UpdatedStore(TokenDefaults(None), "colors", [primary |-> "#111111"], FALSE)}

InitFormat ==
    /\ clock = 0
    /\ calls = 0
    /\ active_workflow_plans = [w \in {} |-> None]
    /\ sandbox = <<>>
    /\ design_tokens_store \in StoredTokens
    /\ call = NoCall
    /\ ret = NoRet
    /\ requests = <<>>
    /\ \E dna \in StoredDna, templates \in StoredTemplates :
           tool_state = [InitialToolState EXCEPT !.business_dna = dna,
                                                 !.component_templates = templates]
    /\ runs = NoRuns
    /\ raised = None

\* the categories a caller asks for
ReadCategoryArgs == {None, "colors", "layout"}

GetDesignTokens == \E category \in ReadCategoryArgs : get_design_tokens(category)

NextFormat ==
    \/ format_business_dna_for_prompt
    \/ get_current_business_dna
    \/ GetDesignTokens
    \/ get_tailwind_config_from_tokens
    \/ Tick

SpecFormat == InitFormat /\ [][NextFormat]_vars

----------------------------------------------------------------------------
(* Specification of the design token store *)

\* the categories a caller names: those of the store and one it has not
CategoryArgs ==
    {"colors", "typography", "spacing", "borders", "shadows", "components",
     "metadata", "layout"}

\* the updates a caller passes
UpdatesArgs ==
    {<< >>,
     [primary |-> "#111111"],
     [name |-> "Brand", last_updated |-> "never"]}

UpdateDesignTokens ==
    \E category \in CategoryArgs, updates \in UpdatesArgs, merge \in BOOLEAN :
        update_design_tokens(category, updates, merge)

ExtractTokensFromAnalysis ==
    \E style_analysis \in StyleAnalyses :
        extract_tokens_from_analysis(style_analysis)

NextTokens ==
    UpdateDesignTokens \/ ExtractTokensFromAnalysis \/ reset_design_tokens \/ Tick

SpecTokens == Init /\ [][NextTokens]_vars

----------------------------------------------------------------------------
(* Specification of the screen tools: screens are created, listed, loaded, *)
(* updated, deleted and compared, and the sandbox answers each request in  *)
(* one of the ways of Replies                                              *)

ScreenIdArgs == {"", "comp-1", "comp-2"}
ScreenNames == {"", "Login"}
ScreenCodes == {"", "<Login/>", "<Login dark/>"}
\* the sandbox did what it was asked when it served the request, did not
\* when the request never got through, and either when its body is bad
Applies(reply) == IF reply = "served" THEN {TRUE}
                  ELSE IF reply \in BodyReplies THEN BOOLEAN ELSE {FALSE}
CompareArgs ==
    {<<"comp-1">>, <<"comp-1", "comp-2">>,
     <<"comp-1", "comp-2", "comp-1", "comp-2", "comp-1">>}

ListScreens == \E reply \in Replies : list_screens(reply)

LoadScreenById ==
    \E screen_id \in ScreenIdArgs, reply \in Replies, null_code \in BOOLEAN :
        load_screen(screen_id, reply, null_code)

UpdateScreen ==
    \E screen_id \in ScreenIdArgs, new_code \in ScreenCodes, reply \in Replies :
        \E applied \in Applies(reply) : update_screen(screen_id, new_code, reply, applied)

CreateScreen ==
    \E name \in ScreenNames, code \in ScreenCodes, reply \in Replies :
        \E applied \in Applies(reply) :
            /\ Len(sandbox) < MaxScreens
            /\ create_screen(name, code, reply, applied)

DeleteScreen ==
    \E screen_id \in ScreenIdArgs, reply \in Replies :
        \E applied \in Applies(reply) : delete_screen(screen_id, reply, applied)

\* the replies to the loads of compare_screen_variants; a list that is too
\* short or too long is turned down before any request
CompareReplies(screen_ids) ==
    IF Len(screen_ids) \in 2..4 THEN [1..Len(screen_ids) -> Replies]
    ELSE {[i \in 1..Len(screen_ids) |-> "served"]}
CompareNullCodes(screen_ids) ==
    IF Len(screen_ids) \in 2..4 THEN [1..Len(screen_ids) -> BOOLEAN]
    ELSE {[i \in 1..Len(screen_ids) |-> FALSE]}

CompareScreenVariants ==
    \E screen_ids \in CompareArgs :
        \E replies \in CompareReplies(screen_ids),
           null_codes \in CompareNullCodes(screen_ids) :
            compare_screen_variants(screen_ids, replies, null_codes)

\* what the backend answers to the modification prompt
ModifyResponses ==
    {[raises |-> TRUE, code |-> ""], [raises |-> FALSE, code |-> "<Login red/>"]}

ModifyCode ==
    \E current_code \in {None, "<Login/>"}, component_id \in {None, "comp-1"},
       component_filename \in {None, "Login.tsx", "Home.tsx"},
       get \in {"ok", "fail"}, response \in ModifyResponses, write \in {"ok", "fail"} :
        /\ Len(sandbox) < MaxScreens
        /\ modify_code(current_code, component_id, component_filename, get, response, write)

NextScreens ==
    \/ ListScreens
    \/ LoadScreenById
    \/ UpdateScreen
    \/ CreateScreen
    \/ DeleteScreen
    \/ CompareScreenVariants
    \/ ModifyCode

SpecScreens == Init /\ [][NextScreens]_vars

----------------------------------------------------------------------------
(* Vocabulary of the properties *)

\* the step taken is a call of the tool op
Called(op) == calls' = calls + 1 /\ call'.op = op

\* the order pending < in_progress < complete
OrderedStatuses == {"pending", "in_progress", "complete"}
Rank(status) ==
    CASE status = "pending" -> 0
      [] status = "in_progress" -> 1
      [] status = "complete" -> 2
      [] OTHER -> -1

\* the steps of plan w whose id is step_id
StepsWithId(plans, w, step_id) ==
    {i \in DOMAIN plans[w].steps : plans[w].steps[i].id = step_id}

\* the last call was an update_workflow_step that returned success
UpdateSucceeded == call.op = "update_workflow_step" /\ ret.success

\* the last call tried to move a complete step to another status and was
\* not obeyed: the step it names is complete, the status it asked for is not
RegressionRejected ==
    /\ UpdateSucceeded
    /\ call.status /= "complete"
    /\ \E i \in StepsWithId(active_workflow_plans, call.workflow_id, call.step_id) :
          active_workflow_plans[call.workflow_id].steps[i].status = "complete"

\* p is num / den rounded to the nearest integer, halves to the even one
IsRounded(p, num, den) ==
    /\ 2 * (num - p * den) <= den
    /\ 2 * (p * den - num) <= den
    /\ (2 * (num - p * den) = den \/ 2 * (p * den - num) = den) => p % 2 = 0

\* p is an integer nearest to num / den: at most one half away from it
IsNearest(p, num, den) ==
    /\ 2 * (num - p * den) <= den
    /\ 2 * (p * den - num) <= den

\* the number of complete steps, counted by going through the list
NumComplete(steps) ==
    Len(SelectSeq(steps, LAMBDA s : s.status = "complete"))

----------------------------------------------------------------------------
(* Properties of the workflow tracker *)

\* C1: once a step's status is complete it is complete in every later
\* state of the plan with that id: no step of any kind (update_workflow_step,
\* generate_workflow_plan, the clock) takes it out of complete.
C1_CompleteStaysComplete ==
    [][\A w \in DOMAIN active_workflow_plans :
        \A i \in DOMAIN active_workflow_plans[w].steps :
            active_workflow_plans[w].steps[i].status = "complete" =>
                /\ w \in DOMAIN active_workflow_plans'
                /\ i \in DOMAIN active_workflow_plans'[w].steps
                /\ active_workflow_plans'[w].steps[i].status = "complete"]_vars

C3_RegressionKeepsStatusStoresLinks ==
    [][Called("update_workflow_step") =>
        \A w \in DOMAIN active_workflow_plans :
        \A i \in DOMAIN active_workflow_plans[w].steps :
            LET old == active_workflow_plans[w].steps[i]
                new == active_workflow_plans'[w].steps[i]
            IN  (/\ call'.workflow_id = w
                 /\ call'.step_id = old.id
                 /\ old.status = "complete"
                 /\ call'.status /= "complete") =>
                    /\ ret'.success
                    /\ new.status = "complete"
                    /\ Truthy(call'.linked_component_id) =>
                          new.linkedComponentId = call'.linked_component_id
                    /\ Truthy(call'.linked_component_name) =>
                          new.linkedComponentName = call'.linked_component_name]_vars

\* a rejected regression that supplied both a linked id and a linked name,
\* and the step holds them
C3_Witness ==
    /\ RegressionRejected
    /\ Truthy(call.linked_component_id)
    /\ Truthy(call.linked_component_name)
    /\ \E i \in StepsWithId(active_workflow_plans, call.workflow_id, call.step_id) :
          LET step == active_workflow_plans[call.workflow_id].steps[i]
          IN  /\ step.linkedComponentId = call.linked_component_id
              /\ step.linkedComponentName = call.linked_component_name

\* C4 as stated: a successful update_workflow_step returns
\* progress = round(100 * completed_steps / total_steps) over the plan's
\* steps as stored after the call; 0, 50, 100 for a 2-step plan; a rejected
\* regression reports the progress the plan had before the call.
C4_ProgressArithmetic ==
    [][(Called("update_workflow_step") /\ ret'.success) =>
        LET w == call'.workflow_id
            before == active_workflow_plans[w].steps
            after == active_workflow_plans'[w].steps
            c == NumComplete(after)
            n == Len(after)
        IN  /\ ret'.completed_steps = c
            /\ ret'.total_steps = n
            /\ IsRounded(ret'.progress, 100 * c, n)
            /\ n = 2 => ret'.progress = (CASE c = 0 -> 0 [] c = 1 -> 50 [] c = 2 -> 100)
            /\ (/\ call'.status /= "complete"
                /\ \E i \in DOMAIN before :
                      before[i].id = call'.step_id /\ before[i].status = "complete")
               => IsRounded(ret'.progress, 100 * NumComplete(before), n)]_vars

\* C4: a successful update_workflow_step returns completed_steps and
\* total_steps as counted over the plan's steps stored after the call, and a
\* progress that is an integer nearest to 100 * completed_steps / total_steps:
\* at most one half away from it, and when the quotient lies exactly halfway
\* between two integers either of them (the code rounds the floating-point
\* product (completed / total) * 100, which is 57.49999999999999 for 23 of 40);
\* 0, 50, 100 for a 2-step plan; a rejected regression reports the progress
\* the plan had before the call, the same number as the preceding successful
\* update of that plan reported.
C4_ProgressNearest ==
    [][(Called("update_workflow_step") /\ ret'.success) =>
        LET w == call'.workflow_id
            before == active_workflow_plans[w].steps
            after == active_workflow_plans'[w].steps
            c == NumComplete(after)
            n == Len(after)
        IN  /\ ret'.completed_steps = c
            /\ ret'.total_steps = n
            /\ IsNearest(ret'.progress, 100 * c, n)
            /\ n = 2 => ret'.progress = (CASE c = 0 -> 0 [] c = 1 -> 50 [] c = 2 -> 100)
            /\ (/\ call'.status /= "complete"
                /\ \E i \in DOMAIN before :
                      before[i].id = call'.step_id /\ before[i].status = "complete")
               => /\ IsNearest(ret'.progress, 100 * NumComplete(before), n)
                  /\ (UpdateSucceeded /\ call.workflow_id = w)
                        => ret'.progress = ret.progress]_vars

\* a rejected regression on a plan of 40 steps, 23 of them complete, reports
\* 57, the odd neighbour of 57.5
C4_Witness ==
    /\ RegressionRejected
    /\ ret.total_steps = 40
    /\ ret.completed_steps = 23
    /\ ret.progress = 57

\* C5: update_workflow_step with an unknown workflow_id fails and lists the
\* known plan ids; with a known plan and an unknown step_id it fails and lists
\* the plan's step ids; in both cases every plan and step is unchanged.
C5_UnknownIdsFail ==
    [][Called("update_workflow_step") =>
        LET w == call'.workflow_id
        IN  /\ w \notin DOMAIN active_workflow_plans =>
                  /\ ~ret'.success
                  /\ ret'.available = DOMAIN active_workflow_plans
                  /\ active_workflow_plans' = active_workflow_plans
            /\ (/\ w \in DOMAIN active_workflow_plans
                /\ StepsWithId(active_workflow_plans, w, call'.step_id) = {}) =>
                  /\ ~ret'.success
                  /\ ret'.available =
                        [i \in DOMAIN active_workflow_plans[w].steps |->
                            active_workflow_plans[w].steps[i].id]
                  /\ active_workflow_plans' = active_workflow_plans]_vars

\* a call named a step that a stored plan with steps does not have
C5_Witness ==
    /\ call.op = "update_workflow_step"
    /\ ~ret.success
    /\ call.workflow_id \in DOMAIN active_workflow_plans
    /\ Len(active_workflow_plans[call.workflow_id].steps) > 0
    /\ StepsWithId(active_workflow_plans, call.workflow_id, call.step_id) = {}
    /\ Len(ret.available) = Len(active_workflow_plans[call.workflow_id].steps)

\* C6: generate_workflow_plan with N step names stores a plan of exactly N
\* steps in input order, ids step-1 .. step-N, titles the given names, every
\* status pending, no linked component, none complete (progress 0%).
C6_NewPlanAllPending ==
    (call.op = "generate_workflow_plan" /\ ret.success) =>
        /\ ret.workflow_id \in DOMAIN active_workflow_plans
        /\ LET steps == active_workflow_plans[ret.workflow_id].steps
           IN  /\ Len(steps) = Len(call.steps)
               /\ \A i \in 1..Len(call.steps) :
                     /\ steps[i].id = "step-" \o ToString(i)
                     /\ steps[i].title = call.steps[i]
                     /\ steps[i].status = "pending"
                     /\ steps[i].linkedComponentId = None
                     /\ steps[i].linkedComponentName = None
               /\ NumComplete(steps) = 0

\* a plan of two steps has just been created
C6_Witness ==
    /\ call.op = "generate_workflow_plan"
    /\ ret.success
    /\ Len(call.steps) = 2
    /\ Len(active_workflow_plans[ret.workflow_id].steps) = 2

\* C7: generate_workflow_plan returns an id that no stored plan has and
\* leaves every stored plan unchanged.
C7_FreshIdNoOverwrite ==
    [][Called("generate_workflow_plan") =>
        /\ ret'.workflow_id \notin DOMAIN active_workflow_plans
        /\ \A w \in DOMAIN active_workflow_plans :
              active_workflow_plans'[w] = active_workflow_plans[w]]_vars

\* C8: every update_workflow_step that returns success regenerates the
\* artifact and sends it to the component store (a PUT or a POST), whether
\* or not the save at plan creation succeeded.
C8_SuccessfulUpdateUpserts ==
    UpdateSucceeded =>
        \E k \in DOMAIN requests : requests[k] \in {"PUT", "POST"}

----------------------------------------------------------------------------
(* Properties of the design token store *)

\* the keys of the default document
DefaultCategories ==
    {"colors", "typography", "spacing", "borders", "shadows", "components",
     "metadata"}

\* in category c, the keys in keys were set to the values of updates and
\* the other keys that c had are unchanged, and c has no other key
MergedExactly(c, updates, keys) ==
    LET old == design_tokens_store[c]
        new == design_tokens_store'[c]
    IN  /\ \A k \in DOMAIN updates \cap keys : k \in DOMAIN new /\ new[k] = updates[k]
        /\ \A k \in (DOMAIN old \cap keys) \ DOMAIN updates :
              k \in DOMAIN new /\ new[k] = old[k]
        /\ DOMAIN new \cap keys = (DOMAIN old \cup DOMAIN updates) \cap keys

\* every key there is
AnyKey == UNION {DOMAIN design_tokens_store[c] \cup DOMAIN design_tokens_store'[c] :
                    c \in DOMAIN design_tokens_store}
             \cup UNION {DOMAIN u : u \in UpdatesArgs}

\* C9 (as claimed): update_design_tokens with merge=true on any category C
\* sets exactly the given keys of C to the given values and leaves every
\* other pre-existing key of C unchanged.
C9_MergeSetsExactlyGivenKeys ==
    [][(Called("update_design_tokens") /\ call'.merge
        /\ call'.category \in DOMAIN design_tokens_store) =>
            MergedExactly(call'.category, call'.updates, AnyKey)]_vars

\* C9 (amended): the same for every key of every category except
\* metadata.last_updated, which a successful update sets to the time of the
\* call, also when last_updated is one of the given keys.
C9_MergeSetsGivenKeysButLastUpdated ==
    [][(Called("update_design_tokens") /\ call'.merge
        /\ call'.category \in DOMAIN design_tokens_store) =>
            /\ ret'.success
            /\ IF call'.category = "metadata"
               THEN /\ MergedExactly("metadata", call'.updates, AnyKey \ {"last_updated"})
                    /\ design_tokens_store'["metadata"]["last_updated"]
                          = "time-" \o ToString(clock)
               ELSE MergedExactly(call'.category, call'.updates, AnyKey)]_vars

\* the scenario of the spec: colors.primary was merged in and the other
\* default colours are still there
C9_Witness ==
    /\ call.op = "update_design_tokens"
    /\ call.merge
    /\ call.category = "colors"
    /\ ret.success
    /\ design_tokens_store["colors"]["primary"] = "#111111"
    /\ design_tokens_store["colors"]["background"] = "#0f172a"

\* C10: the store has every category of the default document in every
\* state reachable by updates (merge true or false), extractions and resets.
C10_CategoriesKept ==
    /\ DefaultCategories \subseteq DOMAIN design_tokens_store
    /\ DOMAIN TokenDefaults(None) = DefaultCategories

\* a category was replaced wholesale by an empty dict and is still a key
C10_Witness ==
    /\ call.op = "update_design_tokens"
    /\ ~call.merge
    /\ ret.success
    /\ call.category = "colors"
    /\ "colors" \in DOMAIN design_tokens_store
    /\ DOMAIN design_tokens_store["colors"] = {}

\* C11: update_design_tokens with a category that is not a key of the store
\* returns a failure that names the category and lists the store's
\* categories, and leaves the whole store as it was (metadata.last_updated
\* included, no category created).
C11_UnknownCategoryFails ==
    [][(Called("update_design_tokens")
        /\ call'.category \notin DOMAIN design_tokens_store) =>
            /\ ~ret'.success
            /\ ret'.error = "unknown_category"
            /\ ret'.category = call'.category
            /\ ret'.available_categories = DOMAIN design_tokens_store
            /\ design_tokens_store' = design_tokens_store
            /\ call'.category \notin DOMAIN design_tokens_store']_vars

\* an update of the category layout has failed a second or more after the
\* update that last set metadata.last_updated
C11_Witness ==
    /\ call.op = "update_design_tokens"
    /\ call.category = "layout"
    /\ ~ret.success
    /\ ret.available_categories = DefaultCategories
    /\ design_tokens_store["metadata"]["last_updated"] = Strftime(0)
    /\ clock = 1

\* C12: right after reset_design_tokens the store is the default document:
\* the same categories, each equal to the default one, but for the value of
\* metadata.last_updated; this from every state that updates (merge true or
\* false, of components too), extractions and resets lead to.
C12_ResetRestoresDefaults ==
    [][Called("reset_design_tokens") =>
        /\ DOMAIN design_tokens_store' = DefaultCategories
        /\ \A c \in DefaultCategories \ {"metadata"} :
              design_tokens_store'[c] = TokenDefaults(None)[c]
        /\ DOMAIN design_tokens_store'["metadata"] = DOMAIN TokenDefaults(None)["metadata"]
        /\ \A k \in DOMAIN TokenDefaults(None)["metadata"] \ {"last_updated"} :
              design_tokens_store'["metadata"][k] = TokenDefaults(None)["metadata"][k]]_vars

\* a reset has been made as the third call or later, and the store is the
\* default document with the time of the reset
C12_Witness ==
    /\ call.op = "reset_design_tokens"
    /\ ret.success
    /\ calls >= 3
    /\ design_tokens_store = TokenDefaults(Strftime(clock))


----------------------------------------------------------------------------
(* Properties of the readers *)

\* the operations that only read
ReadOnlyOps ==
    {"get_design_tokens", "get_tailwind_config_from_tokens",
     "get_current_business_dna", "_format_business_dna_for_prompt"}

\* C13: a call of get_design_tokens, get_tailwind_config_from_tokens,
\* get_current_business_dna or _format_business_dna_for_prompt leaves the
\* token store, the active DNA document and the template set as they were.
C13_ReadersChangeNothing ==
    [][(calls' = calls + 1 /\ call'.op \in ReadOnlyOps) =>
          /\ design_tokens_store' = design_tokens_store
          /\ tool_state'.business_dna = tool_state.business_dna
          /\ tool_state'.component_templates = tool_state.component_templates]_vars

\* a document and a template set are stored, the token store has been
\* updated, and the reader of the DNA slot has returned the document
C13_Witness ==
    /\ call.op = "get_current_business_dna"
    /\ ret.has_business_dna
    /\ ret.business_dna = tool_state.business_dna
    /\ IsDict(tool_state.component_templates)
    /\ design_tokens_store /= TokenDefaults(None)


----------------------------------------------------------------------------
(* Properties of the Business DNA extraction *)

\* the documents an invocation hands to set_business_dna: parsed or
\* fallback, with the _metadata block
CompleteDocuments ==
    {WithMetadata(ParsedDna(response.text), images) :
        response \in {a \in AnalysisResponses : ~a.raises /\ IsDict(ParsedDna(a.text))},
        images \in ImageLists \ {<< >>}}

\* no invocation of analyze_business_dna is under way
NoneUnderWay == \A r \in RunIds : runs[r].pc = "idle"

\* C14: the DNA slot holds no document or one complete document of one
\* analysis, _metadata included, in every state, also while invocations
\* overlap; and when analyze_business_dna has returned success and no other
\* analysis has started since, get_current_business_dna returns exactly the
\* document that invocation returned.
C14_ReaderGetsReturnedDocument ==
    [][/\ tool_state'.business_dna \in {NoDict} \cup CompleteDocuments
       /\ (/\ call.op = "analyze_business_dna"
           /\ ret.success
           /\ NoneUnderWay
           /\ Called("get_current_business_dna")) =>
              /\ ret'.has_business_dna
              /\ ret'.business_dna = ret.business_dna]_vars


\* the invocation r of analyze_business_dna ends with this step
Ended(r) == runs[r].pc /= "idle" /\ runs'[r].pc = "idle" /\ call'.run = r

\* the bodies that are JSON texts (RFC 8259): objects and an array; NaN is
\* not one, nor are the prose, the loose fields and the unclosed brackets
IsJson(body) ==
    body \in {BodyDnaA, BodyDnaB, BodyList, BodyTemplates, BodyHeaderOnly,
              BodyEmptyFields, BodyEmptyObject}

\* C15: an invocation of analyze_business_dna whose backend call returned
\* a text that is not valid JSON once its fence is stripped ends with a
\* success result, and the active DNA is then the document made of
\* raw_analysis, the raw response text, and the _metadata block.
C15_NonJsonFallsBack ==
    [][\A r \in RunIds :
          (Ended(r) /\ ~call'.backend_raised
                    /\ ~IsJson(StripFence(call'.analysis_text))) =>
              /\ ret'.success
              /\ tool_state'.business_dna =
                    WithMetadata([raw_analysis |-> call'.analysis_text], call'.images)]_vars


\* each of header_code, navbar_code and layout_code is absent from the
\* result of the template synthesis or empty
NoUsableField(templates) ==
    \/ ~IsDict(templates)
    \/ \A field \in {"header_code", "navbar_code", "layout_code"} :
          field \notin DOMAIN templates \/ templates[field] = ""

\* C16: an invocation of analyze_business_dna that stored its document and
\* whose template synthesis gave no usable field ends with a success result
\* that reports templates_generated = false, and nothing is raised.
C16_NoUsableFieldNotGenerated ==
    [][\A r \in RunIds :
          (Ended(r) /\ runs[r].pc = "summary" /\ NoUsableField(call'.templates)) =>
              /\ ret'.success
              /\ ~ret'.templates_generated
              /\ raised' = None]_vars


----------------------------------------------------------------------------
(* Properties of the formatter *)

ContainsSome(text, lines) == \E i \in 1..Len(text) : text[i] \in lines

\* the colour values of the documents
DocumentColours == {"#4263EB", "#3B5BDB", "#2563EB", "#FFFFFF"}

\* the five mandates, each taken as present as soon as the formatter has
\* written its heading or its instruction, from either source of the rules
PrimaryMandate(text) ==
    /\ ContainsSome(text, {PrimaryBackground(bg) : bg \in DocumentColours}
                          \cup {ComponentPrimaryBackground(bg) : bg \in DocumentColours})
    /\ ContainsSome(text, {PrimaryText}
                          \cup {ComponentPrimaryText(c) : c \in DocumentColours})
DangerMandate(text) == ContainsSome(text, {DangerHead, "DANGER BUTTONS:"})
AddMandate(text) == ContainsSome(text, {AddHead, "ADD/CREATE BUTTONS:"})
NavbarMandate(text) == ContainsSome(text, {NavbarHead})
HeaderShadowMandate(text) ==
    ContainsSome(text, {ShadowHead, HeaderHead, HeaderShadowMust, HeaderDropShadowAdd})

\* C18: for every DNA document that is not empty, whatever optional fields
\* it has, the text the formatter returns has the primary-button rule
\* (never white background, white text), the danger-button rule, the
\* add/create-button rule, the navbar-active-indicator rule and the
\* header-drop-shadow rule.
C18_FiveMandatesAlways ==
    [][(/\ Called("_format_business_dna_for_prompt")
        /\ TruthyValue(call'.dna)
        /\ raised' = None) =>
            /\ PrimaryMandate(ret'.text)
            /\ DangerMandate(ret'.text)
            /\ AddMandate(ret'.text)
            /\ NavbarMandate(ret'.text)
            /\ HeaderShadowMandate(ret'.text)]_vars



\* the document has a source of button rules, and neither
\* button_variants.primary.bg nor components.button_primary_bg
LacksPrimaryBackground(dna) ==
    LET variant == /\ HasDict(dna, "button_variants")
                   /\ HasDict(dna["button_variants"], "primary")
                   /\ "bg" \in DOMAIN dna["button_variants"]["primary"]
        component == /\ HasDict(dna, "components")
                     /\ Truthy(Get(dna["components"], "button_primary_bg"))
    IN  /\ "button_variants" \in DOMAIN dna \/ "components" \in DOMAIN dna
        /\ ~variant
        /\ ~component

\* colors.primary_accent if the document has it, else the constant
FallbackAccent(dna) ==
    GetDefault(GetDefault(dna, "colors", << >>), "primary_accent", "#4263EB")

\* C24: for a document with button rules that lacks the primary button
\* background value, the text the formatter returns has the
\* primary-button background rule with colors.primary_accent, or with
\* #4263EB when the document has no primary_accent.
C24_PrimaryBackgroundFallsBack ==
    [][(/\ Called("_format_business_dna_for_prompt")
        /\ TruthyValue(call'.dna)
        /\ raised' = None
        /\ LacksPrimaryBackground(call'.dna)) =>
            ContainsSome(ret'.text,
                         {PrimaryBackground(FallbackAccent(call'.dna)),
                          ComponentPrimaryBackground(FallbackAccent(call'.dna))})]_vars

\* the field of the template set is there and not empty
UsableField(templates, field) ==
    IsDict(templates) /\ field \in DOMAIN templates /\ templates[field] /= ""
TemplateFields == {"header_code", "navbar_code", "layout_code"}

\* the items of block are in the text one after the other
ContainsBlock(text, block) ==
    \E i \in 0..(Len(text) - Len(block)) :
        \A j \in 1..Len(block) : text[i + j] = block[j]

\* C19: the text the formatter returns has the component-template section
\* and the checklist after it exactly when one of header_code, navbar_code,
\* layout_code of the active template set is not empty; each field that is
\* not empty is there verbatim in a fenced block of its own, and a field
\* that is absent or empty adds nothing.
C19_TemplateSectionIffUsableField ==
    [][(/\ Called("_format_business_dna_for_prompt")
        /\ TruthyValue(call'.dna)
        /\ raised' = None) =>
            LET templates == call'.templates
                text == ret'.text
                usable == \E field \in TemplateFields : UsableField(templates, field)
            IN  /\ ContainsSome(text, {TemplatesHead}) <=> usable
                /\ ContainsBlock(text, TemplateChecklist) <=> usable
                /\ \A field \in TemplateFields :
                      IF UsableField(templates, field)
                      THEN ContainsBlock(text, <<TemplateHeads[field], FenceTsx,
                                                 templates[field], Fence>>)
                      ELSE ~ContainsSome(text, {TemplateHeads[field]})]_vars


----------------------------------------------------------------------------
(* Properties of the tools that call out *)

\* C20: whatever the sandbox does with the request of a screen tool
\* (timeout, transport error, a body that is not JSON or not the JSON the
\* tool expects), the tool call ends by returning a result dict with its
\* success flag; no exception leaves the tool.
C20_ToolsReturnResult ==
    [][calls' = calls + 1 => (raised' = None /\ "success" \in DOMAIN ret')]_vars


\* the records of the sandbox with the filename
WithFilename(filename) == {i \in DOMAIN sandbox : sandbox[i].filename = filename}

\* C21: a successful modify_code with a component_filename and no
\* component_id, where a record of the sandbox has that filename and the
\* sandbox carries out what it is asked, adds no record and leaves the
\* modified code in the record with that filename.
C21_ModifyByFilenameUpdates ==
    [][(/\ Called("modify_code")
        /\ ~Truthy(call'.component_id)
        /\ Truthy(call'.component_filename)
        /\ WithFilename(call'.component_filename) /= {}
        /\ call'.write = "ok"
        /\ ret'.success) =>
            /\ Len(sandbox') = Len(sandbox)
            /\ \A i \in WithFilename(call'.component_filename) :
                  sandbox'[i].code = ret'.code]_vars


----------------------------------------------------------------------------
(* Properties of the workflow tracker: statuses, artifacts *)

\* C22: every step of every stored plan has one of the statuses pending,
\* in_progress and complete, whatever the callers pass.
C22_StatusesAreKnown ==
    \A w \in DOMAIN active_workflow_plans :
        \A i \in DOMAIN active_workflow_plans[w].steps :
            active_workflow_plans[w].steps[i].status \in {"pending", "in_progress", "complete"}

\* C25: every successful update_workflow_step looks the record up by the
\* name WorkflowPlan (a GET), whatever component_id the plan remembers, then
\* sends a PUT to the first record of that name, or a POST that creates one
\* when it found none; when there is no such record it is a POST.  The
\* sandbox is left alone when the write fails, and the step update is
\* stored either way.
C25_ResolvesByNameEveryCall ==
    [][(Called("update_workflow_step") /\ ret'.success) =>
            LET found == GetWorkflowComponentId("ok")
                new_steps == UpdateSteps(active_workflow_plans[call'.workflow_id].steps,
                                         call'.step_id, call'.status,
                                         call'.linked_component_id,
                                         call'.linked_component_name)
                component_code ==
                    GenerateWorkflowComponentCode(
                        active_workflow_plans[call'.workflow_id].task_description, new_steps)
            IN  /\ requests' \in {<<"GET", "PUT">>, <<"GET", "POST">>}
                /\ ~Truthy(found) => requests' = <<"GET", "POST">>
                /\ requests' = <<"GET", "PUT">> =>
                      /\ Truthy(found)
                      /\ sandbox' \in {sandbox, SandboxPut(found, component_code)}
                /\ requests' = <<"GET", "POST">> =>
                      sandbox' \in {sandbox, SandboxCreate(component_code, "WorkflowPlan")}
                /\ active_workflow_plans'[call'.workflow_id].steps = new_steps]_vars

\* C28: the new_status of a successful update_workflow_step result is the
\* status stored on that step after the call.
C28_NewStatusIsStoredStatus ==
    [][(Called("update_workflow_step") /\ ret'.success) =>
            \A i \in DOMAIN active_workflow_plans'[call'.workflow_id].steps :
                LET step == active_workflow_plans'[call'.workflow_id].steps[i]
                IN  step.id = call'.step_id => ret'.new_status = step.status]_vars

\* the records of the sandbox that a plan's component_id refers to
ArtifactOf(w) ==
    {i \in DOMAIN sandbox : sandbox[i].id = active_workflow_plans[w].component_id}

\* C29: update_workflow_step on one plan leaves the record that any other
\* stored plan's component_id refers to as it was.
C29_OtherPlansArtifactKept ==
    [][Called("update_workflow_step") =>
            \A w \in DOMAIN active_workflow_plans \ {call'.workflow_id} :
                \A i \in ArtifactOf(w) : sandbox'[i] = sandbox[i]]_vars


----------------------------------------------------------------------------
(* Properties of the Business DNA extraction: what an invocation leaves *)

\* C23: an extraction that returns success leaves in the template slot
\* either the template set it synthesized from its own document or, when
\* it synthesized none, no template set: templates of an earlier
\* extraction do not stay next to the new document.
C23_TemplatesFollowDna ==
    [][\A r \in RunIds :
          (Ended(r) /\ ret'.success) =>
              tool_state'.component_templates =
                  IF TruthyValue(call'.templates) THEN call'.templates ELSE NoDict]_vars

\* C26: analyze_business_dna returns a failure only before it has written
\* to the DNA slot or the template slot (an invocation writes the DNA slot
\* when it leaves the extraction step), and the step that returns the
\* failure writes nothing: the slots hold what they held when the call
\* began.
C26_FailureLeavesSlots ==
    [][/\ (Called("analyze_business_dna") /\ ~ret'.success) => tool_state' = tool_state
       /\ \A r \in RunIds :
            (Ended(r) /\ ~ret'.success) =>
                /\ runs[r].pc = "extract"
                /\ tool_state' = tool_state]_vars

\* C27: the template slot holds None or a dict.
C27_TemplatesAbsentOrMapping ==
    tool_state.component_templates = NoDict \/ IsDict(tool_state.component_templates)


----------------------------------------------------------------------------
(* Properties of the image state *)

\* the single-image slot is the first element of the list, and
\* (None, None) when the list is empty
ImageSlotMirrorsList ==
    <<tool_state.image_data, tool_state.image_mime>> =
        IF tool_state.images /= << >> THEN tool_state.images[1] ELSE <<None, None>>

\* a step of set_images_in_state, set_image_in_state, clear_image_state or
\* extract_images_from_state: the only steps that change the image fields
ImageCall ==
    \/ tool_state'.images /= tool_state.images
    \/ tool_state'.image_data /= tool_state.image_data
    \/ tool_state'.image_mime /= tool_state.image_mime

\* C30: in every state the single-image slot mirrors the image list, and
\* the image calls leave the DNA slot and the template slot as they were.
C30_SlotMirrorsImages ==
    /\ []ImageSlotMirrorsList
    /\ [][ImageCall =>
            /\ tool_state'.business_dna = tool_state.business_dna
            /\ tool_state'.component_templates = tool_state.component_templates]_vars

====
